---------------------------- MODULE Spec2Model ----------------------------
(***************************************************************************)
(* A model of the rusty-raytracer geometry kernel: tolerance equality      *)
(* (utils.rs), Matrix (matrix.rs), Ray (ray.rs), Intersection and          *)
(* Intersections (intersection.rs) and Sphere (sphere.rs).                 *)
(*                                                                         *)
(* Numbers.  The program computes in f32.  An f32 value is modelled as a   *)
(* pair <<m, e>> standing for m * 2^e, kept canonical: m is odd, or the    *)
(* value is zero and the pair is <<0, 0>>.  |m| < 2^24 always, so every    *)
(* pair is an f32 value, and every arithmetic operator below rounds its    *)
(* exact result to 24 significant bits, ties to even, as the hardware      *)
(* does.  <<0, 1>>, <<0, 2>> and <<0, 3>> stand for NaN, +inf and -inf.    *)
(* Not modelled: the sign of zero, and the exponent range (no overflow to  *)
(* infinity, no subnormals); the inputs used stay far from both.           *)
(***************************************************************************)
EXTENDS Integers, Sequences, FiniteSets, TLC

(***************************************************************************)
(* f32 arithmetic                                                          *)
(***************************************************************************)
Zero == <<0, 0>>
NaN  == <<0, 1>>
PInf == <<0, 2>>
NInf == <<0, 3>>

IsInf(x)    == x = PInf \/ x = NInf
IsFinite(x) == x[1] # 0 \/ x[2] = 0

AbsInt(n) == IF n < 0 THEN -n ELSE n
SgnInt(n) == IF n < 0 THEN -1 ELSE IF n = 0 THEN 0 ELSE 1

\* number of significant bits of n, 0 <= n < 2^(2w), by halving the range
RECURSIVE BitLenR(_, _)
BitLenR(n, w) ==
    IF w = 0 THEN n
    ELSE IF n >= 2^w THEN w + BitLenR(n \div (2^w), w \div 2)
    ELSE BitLenR(n, w \div 2)

BitLen(n) == BitLenR(n, 16)

\* <<m, e>> with the factors 2^w, 2^(w/2), .., 2 taken out of m where they divide it
RECURSIVE CanonR(_, _, _)
CanonR(m, e, w) ==
    IF w = 0 THEN <<m, e>>
    ELSE IF m % (2^w) = 0 THEN CanonR(m \div (2^w), e + w, w \div 2)
    ELSE CanonR(m, e, w \div 2)

\* the canonical pair of m * 2^e, |m| < 2^31
Canon(m, e) == IF m = 0 THEN Zero ELSE CanonR(m, e, 16)

\* the f32 value of an integer of at most 24 significant bits
I2F(n) == Canon(n, 0)

\* round to nearest, ties to even: is q (with remainder rem out of 2*half,
\* and sticky telling of further non-zero bits) rounded up?
RoundUp(q, rem, half, sticky) ==
    rem > half \/ (rem = half /\ (sticky \/ q % 2 = 1))

\* s * q * 2^e with q rounded by the remainder
RoundQ(s, q, rem, half, sticky, e) ==
    Canon(s * (IF RoundUp(q, rem, half, sticky) THEN q + 1 ELSE q), e)

\* s * n * 2^e rounded to 24 significant bits, n having k + 24 bits
Round24K(s, n, e, sticky, k) ==
    IF k <= 0 THEN Canon(s * n, e)
    ELSE RoundQ(s, n \div (2^k), n % (2^k), 2^(k-1), sticky, e + k)

\* s * n * 2^e rounded to 24 significant bits, 0 <= n < 2^31
Round24(s, n, e, sticky) == Round24K(s, n, e, sticky, BitLen(n) - 24)

\* s * (H * 2^24 + L) * 2^e rounded to 24 significant bits, H having k bits
RoundWideK(s, H, L, e, k) ==
    IF k = 0 THEN Round24(s, L, e, FALSE)
    ELSE IF k <= 24
    THEN RoundQ(s, H * (2^(24-k)) + (L \div (2^k)), L % (2^k), 2^(k-1), FALSE, e + k)
    ELSE RoundQ(s, H \div (2^(k-24)), (H % (2^(k-24))) * (2^24) + L,
                (2^(k-25)) * (2^24), FALSE, e + k)

\* s * (H * 2^24 + L) * 2^e rounded to 24 significant bits,
\* 0 <= L < 2^24, 0 <= H < 2^26
RoundWide(s, H, L, e) == RoundWideK(s, H, L, e, BitLen(H))

FNeg(x) ==
    IF x = NaN THEN NaN
    ELSE IF x = PInf THEN NInf
    ELSE IF x = NInf THEN PInf
    ELSE <<-x[1], x[2]>>

FAbs(x) ==
    IF x = NaN THEN NaN
    ELSE IF IsInf(x) THEN PInf
    ELSE <<AbsInt(x[1]), x[2]>>

\* the sign of x: -1, 0 or 1 (0 for NaN too)
FSgn(x) ==
    IF x = PInf THEN 1 ELSE IF x = NInf THEN -1 ELSE SgnInt(x[1])

\* s * (hi * 2^24 + mid * 2^12 + lo) * 2^e rounded
FMulSum(s, hi, mid, lo, e) ==
    RoundWide(s, hi + (mid \div 4096), (mid % 4096) * 4096 + (lo % 4096), e)

\* s * a * b * 2^e from the 12-bit halves of a and b
FMulLimbs(s, a1, a0, b1, b0, e) ==
    FMulSum(s, a1 * b1, a1 * b0 + a0 * b1 + ((a0 * b0) \div 4096), a0 * b0, e)

\* s * a * b * 2^e rounded, 0 < a, b < 2^24
FMulMag(s, a, b, e) ==
    IF a <= 2147483647 \div b THEN Round24(s, a * b, e, FALSE)
    ELSE FMulLimbs(s, a \div 4096, a % 4096, b \div 4096, b % 4096, e)

\* x * y
FMul(x, y) ==
    IF x = NaN \/ y = NaN THEN NaN
    ELSE IF IsInf(x) \/ IsInf(y)
    THEN (IF FSgn(x) * FSgn(y) = 0 THEN NaN
          ELSE IF FSgn(x) * FSgn(y) > 0 THEN PInf ELSE NInf)
    ELSE IF x[1] = 0 \/ y[1] = 0 THEN Zero
    ELSE FMulMag(SgnInt(x[1]) * SgnInt(y[1]), AbsInt(x[1]), AbsInt(y[1]), x[2] + y[2])

\* sa * (H0 * 2^24 + L1) * 2^eb rounded, L1 possibly out of 0 .. 2^24 - 1 by
\* less than 2^24
AddWide(sa, H0, L1, eb) ==
    RoundWide(sa,
              IF L1 >= 2^24 THEN H0 + 1 ELSE IF L1 < 0 THEN H0 - 1 ELSE H0,
              IF L1 >= 2^24 THEN L1 - 2^24 ELSE IF L1 < 0 THEN L1 + 2^24 ELSE L1,
              eb)

\* (A * 2^s + B) * 2^eb rounded, 6 < s < 26, a = |A|, b = |B|
AddFar(A, a, B, b, s, eb) ==
    AddWide(SgnInt(A),
            IF s <= 24 THEN a \div (2^(24-s)) ELSE a * (2^(s-24)),
            (IF s <= 24 THEN (a % (2^(24-s))) * (2^s) ELSE 0)
                + (IF SgnInt(B) = SgnInt(A) THEN b ELSE -b),
            eb)

\* n * 2^eb rounded
AddNear(n, eb) == Round24(SgnInt(n), AbsInt(n), eb, FALSE)

\* A * 2^ea + B * 2^eb rounded, A and B of 24 bits, s = ea - eb >= 0
AddShifted(A, ea, B, eb, s) ==
    IF s >= 26 THEN Canon(A, ea)
    ELSE IF s <= 6 THEN AddNear(A * (2^s) + B, eb)
    ELSE AddFar(A, AbsInt(A), B, AbsInt(B), s, eb)

\* x + y for finite non-zero x, y, the exponent of x's 24-bit form being the larger
AddOrdered(A, ea, B, eb) == AddShifted(A, ea, B, eb, ea - eb)

\* A * 2^ea + B * 2^eb rounded, A and B of 24 bits
FAddAligned(A, ea, B, eb) ==
    AddOrdered(IF ea >= eb THEN A ELSE B, IF ea >= eb THEN ea ELSE eb,
               IF ea >= eb THEN B ELSE A, IF ea >= eb THEN eb ELSE ea)

\* x + y for finite non-zero x, y, pa and pb the shifts making them 24 bits
FAddNorm(x, y, pa, pb) ==
    FAddAligned(x[1] * (2^pa), x[2] - pa, y[1] * (2^pb), y[2] - pb)

\* x + y
FAdd(x, y) ==
    IF x = NaN \/ y = NaN THEN NaN
    ELSE IF IsInf(x) THEN (IF IsInf(y) /\ x # y THEN NaN ELSE x)
    ELSE IF IsInf(y) THEN y
    ELSE IF x[1] = 0 THEN y
    ELSE IF y[1] = 0 THEN x
    ELSE FAddNorm(x, y, 24 - BitLen(AbsInt(x[1])), 24 - BitLen(AbsInt(y[1])))

\* x - y
FSub(x, y) == FAdd(x, FNeg(y))

\* the 25 further quotient bits of r / B after the integer part q, five at a
\* time: <<quotient, remainder>>
RECURSIVE DivChunks(_, _, _, _)
DivChunks(q, r, B, n) ==
    IF n = 0 THEN <<q, r>>
    ELSE DivChunks(q * 32 + ((r * 32) \div B), (r * 32) % B, B, n - 1)

\* s * (A / B) * 2^e rounded: qr is <<quotient, remainder>>
FDivRound(s, qr, e) == Round24(s, qr[1], e, qr[2] # 0)

\* s * (A / B) * 2^(e + 25) rounded, A and B of 24 bits
FDivAligned(s, A, B, e) == FDivRound(s, DivChunks(A \div B, A % B, B, 5), e)

\* x / y for finite non-zero x, y, pa and pb the shifts making them 24 bits
FDivNorm(x, y, pa, pb) ==
    FDivAligned(SgnInt(x[1]) * SgnInt(y[1]), AbsInt(x[1]) * (2^pa), AbsInt(y[1]) * (2^pb),
                (x[2] - pa) - (y[2] - pb) - 25)

\* x / y
FDiv(x, y) ==
    IF x = NaN \/ y = NaN THEN NaN
    ELSE IF IsInf(x)
    THEN (IF IsInf(y) THEN NaN
          ELSE IF FSgn(x) * (IF FSgn(y) < 0 THEN -1 ELSE 1) > 0 THEN PInf ELSE NInf)
    ELSE IF IsInf(y) THEN Zero
    ELSE IF y[1] = 0
    THEN (IF x[1] = 0 THEN NaN ELSE IF x[1] > 0 THEN PInf ELSE NInf)
    ELSE IF x[1] = 0 THEN Zero
    ELSE FDivNorm(x, y, 24 - BitLen(AbsInt(x[1])), 24 - BitLen(AbsInt(y[1])))

\* the square root of M * 4^n, bit by bit: pairs of bits of M from the top
\* (i pairs left), then n pairs of zeros: <<root, remainder>>
RECURSIVE SqrtBits(_, _, _, _, _)
SqrtBits(M, i, n, root, rem) ==
    IF i = 0 /\ n = 0 THEN <<root, rem>>
    ELSE LET pair == IF i > 0 THEN (M \div (4^(i-1))) % 4 ELSE 0
             r4 == rem * 4 + pair
             trial == root * 4 + 1
         IN IF r4 >= trial
            THEN SqrtBits(M, IF i > 0 THEN i - 1 ELSE 0, IF i > 0 THEN n ELSE n - 1,
                          root * 2 + 1, r4 - trial)
            ELSE SqrtBits(M, IF i > 0 THEN i - 1 ELSE 0, IF i > 0 THEN n ELSE n - 1,
                          root * 2, r4)

\* sqrt(M * 2^e) rounded, M of 24 or 25 bits, e even
FSqrtEven(rr, e) == Round24(1, rr[1], (e \div 2) - 14, rr[2] # 0)

\* sqrt(m * 2^e) for m > 0, p the shift making m 24 bits
FSqrtNorm(m, e, p) ==
    IF (e - p) % 2 = 1
    THEN FSqrtEven(SqrtBits(m * (2^p) * 2, 13, 14, 0, 0), e - p - 1)
    ELSE FSqrtEven(SqrtBits(m * (2^p), 13, 14, 0, 0), e - p)

\* sqrt(x)
FSqrt(x) ==
    IF x = NaN \/ x = NInf THEN NaN
    ELSE IF x = PInf THEN PInf
    ELSE IF x[1] = 0 THEN Zero
    ELSE IF x[1] < 0 THEN NaN
    ELSE FSqrtNorm(x[1], x[2], 24 - BitLen(x[1]))

\* x < y, x <= y, x == y as f32 compares them (false when either is NaN)
FLt(x, y) == x # NaN /\ y # NaN /\ x # y /\
             (IF x = NInf \/ y = PInf THEN TRUE
              ELSE IF x = PInf \/ y = NInf THEN FALSE
              ELSE FSgn(FSub(x, y)) < 0)
FEq(x, y) == x # NaN /\ y # NaN /\ x = y
FLe(x, y) == FLt(x, y) \/ FEq(x, y)

(***************************************************************************)
(* Option values and aborts.  Rust's Option is Some(v) or None; a call     *)
(* that panics (unwrap of None, an index past the end of a Vec) yields     *)
(* Panic in place of a value.                                              *)
(***************************************************************************)
Some(v) == [kind |-> "Some", val |-> v]
None    == [kind |-> "None"]
Panic   == [kind |-> "Panic"]

\* f32 literals of the source
One  == I2F(1)
Two  == I2F(2)
Four == I2F(4)
\* the f32 nearest to 1e-4 (utils.rs:2)
Tolerance == <<13743895, -37>>

(***************************************************************************)
(* utils.rs                                                                *)
(***************************************************************************)
is_equal(v1, v2) == FLe(FAbs(FSub(v1, v2)), Tolerance)

(***************************************************************************)
(* tuple.rs                                                                *)
(***************************************************************************)
Tuple_new(x, y, z, w) == [x |-> x, y |-> y, z |-> z, w |-> w]
Tuple_point(x, y, z)  == [x |-> x, y |-> y, z |-> z, w |-> One]
Tuple_vector(x, y, z) == [x |-> x, y |-> y, z |-> z, w |-> Zero]

Tuple_dot(a, b) ==
    FAdd(FAdd(FAdd(FMul(a.x, b.x), FMul(a.y, b.y)), FMul(a.z, b.z)), FMul(a.w, b.w))

\* Tuple_sub with the components added
Tuple_sub_added(a, b) ==
    [x |-> FAdd(a.x, b.x), y |-> FAdd(a.y, b.y), z |-> FAdd(a.z, b.z), w |-> FAdd(a.w, b.w)]

Tuple_sub(a, b) ==
    [x |-> FSub(a.x, b.x), y |-> FSub(a.y, b.y), z |-> FSub(a.z, b.z), w |-> FSub(a.w, b.w)]

Tuple_add(a, b) ==
    [x |-> FAdd(a.x, b.x), y |-> FAdd(a.y, b.y), z |-> FAdd(a.z, b.z), w |-> FAdd(a.w, b.w)]

\* Tuple_neg with w negated like the other three
Tuple_neg_all(a) == [x |-> FNeg(a.x), y |-> FNeg(a.y), z |-> FNeg(a.z), w |-> FNeg(a.w)]

\* Neg, Mul<f32> and Div<f32> copy self.w
Tuple_neg(a) == [x |-> FNeg(a.x), y |-> FNeg(a.y), z |-> FNeg(a.z), w |-> a.w]

Tuple_mul(a, rhs) == [x |-> FMul(a.x, rhs), y |-> FMul(a.y, rhs), z |-> FMul(a.z, rhs), w |-> a.w]

Tuple_div(a, rhs) == [x |-> FDiv(a.x, rhs), y |-> FDiv(a.y, rhs), z |-> FDiv(a.z, rhs), w |-> a.w]

\* powi(2) is the product of the value with itself
Tuple_magnitude(a) == FSqrt(FAdd(FAdd(FMul(a.x, a.x), FMul(a.y, a.y)), FMul(a.z, a.z)))

Tuple_normalize(a) == Tuple_div(a, Tuple_magnitude(a))

\* reflect(&self, normal): self - normal * 2.0 * self.dot(normal)
Tuple_reflect(a, normal) == Tuple_sub(a, Tuple_mul(normal, FMul(Two, Tuple_dot(a, normal))))

\* the derived PartialEq: the four f32 fields compared with ==
Tuple_eq(a, b) == FEq(a.x, b.x) /\ FEq(a.y, b.y) /\ FEq(a.z, b.z) /\ FEq(a.w, b.w)

(***************************************************************************)
(* matrix.rs.  A Matrix is [nrows, ncols, vals]; vals is the row-major     *)
(* Vec<f32>, here a sequence, so Rust's vals[i] is vals[i + 1].            *)
(***************************************************************************)
Matrix_new(nrows, ncols) ==
    [nrows |-> nrows, ncols |-> ncols, vals |-> [k \in 1..(nrows * ncols) |-> Zero]]

Matrix_from_array(nrows, ncols, vals) ==
    IF Len(vals) # nrows * ncols THEN None
    ELSE Some([nrows |-> nrows, ncols |-> ncols, vals |-> vals])

Matrix_shape(m) == <<m.nrows, m.ncols>>

\* Matrix_get_index without the test of col
Matrix_get_index_rows(m, row, col) ==
    IF row >= m.nrows THEN None
    ELSE Some(row * m.ncols + col)

Matrix_get_index(m, row, col) ==
    IF row >= m.nrows \/ col >= m.ncols THEN None
    ELSE Some(row * m.ncols + col)

\* get and set index vals with what get_index gave: Vec's own check applies
Matrix_get(m, row, col) ==
    LET ix == Matrix_get_index(m, row, col)
    IN IF ix = None THEN None
       ELSE IF ix.val < Len(m.vals) THEN Some(m.vals[ix.val + 1])
       ELSE Panic

\* set(&mut self, ..): the matrix afterwards (m) and the value returned (ret)
Matrix_set(m, row, col, val) ==
    LET ix == Matrix_get_index(m, row, col)
    IN IF ix = None THEN [m |-> m, ret |-> None]
       ELSE IF ix.val < Len(m.vals)
       THEN [m |-> [m EXCEPT !.vals[ix.val + 1] = val], ret |-> Some(m.vals[ix.val + 1])]
       ELSE [m |-> m, ret |-> Panic]

\* the value the indexing of a Vec past its end stands for: the call aborts
Boom == <<0, 4>>

\* Index<(usize, usize)>: no check of row and col, only Vec's own of the index
Matrix_index(m, row, col) ==
    LET idx == row * m.ncols + col
    IN IF idx < Len(m.vals) THEN m.vals[idx + 1] ELSE Boom

\* A loop is a recursive operator over the loop's state, a record of the
\* variables the loop changes.
RECURSIVE IdentityLoop(_, _)
IdentityLoop(st, size) ==
    IF st.i >= size THEN st.matrix
    ELSE IdentityLoop([matrix |-> Matrix_set(st.matrix, st.i, st.i, One).m, i |-> st.i + 1],
                      size)

\* Matrix_identity without the loop setting the diagonal
Matrix_identity_blank(size) == Matrix_new(size, size)

Matrix_identity(size) == IdentityLoop([matrix |-> Matrix_new(size, size), i |-> 0], size)

\* TransposeCols setting (i, j), not (j, i)
RECURSIVE TransposeCols_straight(_, _, _)
TransposeCols_straight(self, i, st) ==
    IF st.j >= self.ncols THEN st.transpose
    ELSE TransposeCols_straight(self, i,
            [transpose |-> Matrix_set(st.transpose, i, st.j, Matrix_index(self, i, st.j)).m,
             j |-> st.j + 1])

\* the loops of transpose: over j for one i, and over i
RECURSIVE TransposeCols(_, _, _)
TransposeCols(self, i, st) ==
    IF st.j >= self.ncols THEN st.transpose
    ELSE TransposeCols(self, i,
            [transpose |-> Matrix_set(st.transpose, st.j, i, Matrix_index(self, i, st.j)).m,
             j |-> st.j + 1])

RECURSIVE TransposeRows(_, _)
TransposeRows(self, st) ==
    IF st.i >= self.nrows THEN st.transpose
    ELSE TransposeRows(self,
            [transpose |-> TransposeCols(self, st.i, [transpose |-> st.transpose, j |-> 0]),
             i |-> st.i + 1])

Matrix_transpose(self) ==
    TransposeRows(self, [transpose |-> Matrix_new(self.nrows, self.ncols), i |-> 0])

\* the loops of submatrix: over j for one i (columns kept so far: colid), and
\* over i (rows kept so far: rowid)
RECURSIVE SubmatrixCols(_, _, _, _, _)
SubmatrixCols(self, col, i, rowid, st) ==
    IF st.j >= self.ncols THEN st.submat
    ELSE IF st.j = col
    THEN SubmatrixCols(self, col, i, rowid,
            [submat |-> st.submat, j |-> st.j + 1, colid |-> st.colid])
    ELSE SubmatrixCols(self, col, i, rowid,
            [submat |-> Matrix_set(st.submat, rowid, st.colid, Matrix_index(self, i, st.j)).m,
             j |-> st.j + 1, colid |-> st.colid + 1])

RECURSIVE SubmatrixRows(_, _, _, _)
SubmatrixRows(self, row, col, st) ==
    IF st.i >= self.nrows THEN st.submat
    ELSE IF st.i = row
    THEN SubmatrixRows(self, row, col,
            [submat |-> st.submat, i |-> st.i + 1, rowid |-> st.rowid])
    ELSE SubmatrixRows(self, row, col,
            [submat |-> SubmatrixCols(self, col, st.i, st.rowid,
                                      [submat |-> st.submat, j |-> 0, colid |-> 0]),
             i |-> st.i + 1, rowid |-> st.rowid + 1])

Matrix_submatrix(self, row, col) ==
    SubmatrixRows(self, row, col,
        [submat |-> Matrix_new(self.nrows - 1, self.ncols - 1), i |-> 0, rowid |-> 0])

\* submatrix on a matrix that may have no row or no column.  nrows - 1 and
\* ncols - 1 are usize subtractions: from 0, a build with overflow checks
\* (checks) aborts and a build without them wraps to usize::MAX.  A usize is
\* written here by its representative nearest to 0 modulo 2^64, so -1 is
\* usize::MAX and the product of line 16 is the product of representatives;
\* a negative product is a length the vec! of line 16 cannot allocate.
Matrix_submatrix_built(checks, self, row, col) ==
    IF self.nrows # 0 /\ self.ncols # 0 THEN Matrix_submatrix(self, row, col)
    ELSE IF checks THEN Panic
    ELSE IF (self.nrows - 1) * (self.ncols - 1) < 0 THEN Panic
    ELSE Matrix_submatrix(self, row, col)

RECURSIVE Matrix_det(_)
Matrix_minor(self, row, col) == Matrix_det(Matrix_submatrix(self, row, col))

\* CofactorOf with the sign never changed
CofactorOf_unsigned(minor_val, row, col) == minor_val

\* cofactor from line 116 on, minor_val computed
CofactorOf(minor_val, row, col) ==
    IF (row + col) % 2 # 0 THEN FNeg(minor_val) ELSE minor_val

Matrix_cofactor(self, row, col) == CofactorOf(Matrix_minor(self, row, col), row, col)

\* det += cell * cofactor, line 84: an abort in the indexing that gave cell,
\* or in cofactor, is an abort of det
DetAdd(det, cell, cofactor) ==
    IF cofactor = Boom THEN Boom ELSE FAdd(det, FMul(cell, cofactor))

RECURSIVE DetLoop(_, _)
DetTerm(self, st, cell) ==
    IF cell = Boom THEN [det |-> Boom, i |-> self.ncols]
    ELSE [det |-> DetAdd(st.det, cell, Matrix_cofactor(self, 0, st.i)), i |-> st.i + 1]

\* the loop of det over the columns of row 0
DetLoop(self, st) ==
    IF st.i >= self.ncols \/ st.det = Boom THEN st.det
    ELSE DetLoop(self, DetTerm(self, st, Matrix_index(self, 0, st.i)))

Matrix_det(self) ==
    IF self.nrows = 2 /\ self.ncols = 2
    THEN FSub(FMul(self.vals[1], self.vals[4]), FMul(self.vals[2], self.vals[3]))
    ELSE DetLoop(self, [det |-> Zero, i |-> 0])

\* is_invertible, det computed: a boolean, or Panic when det aborted
IsInvertibleOf(det) == IF det = Boom THEN Panic ELSE ~FEq(det, Zero)

Matrix_is_invertible(self) == IsInvertibleOf(Matrix_det(self))

\* InverseCols setting (i, j), not (j, i)
RECURSIVE InverseCols_straight(_, _, _, _)
InverseCols_straight(self, det, i, st) ==
    IF st.j >= self.ncols THEN st.inverse_mat
    ELSE InverseCols_straight(self, det, i,
            [inverse_mat |-> Matrix_set(st.inverse_mat, i, st.j,
                                        FDiv(Matrix_cofactor(self, i, st.j), det)).m,
             j |-> st.j + 1])

\* inverse, lines 134 and 135: c is cofactor(i, j), Boom when it aborted
InverseCell(inverse_mat, det, i, j, c) ==
    IF c = Boom THEN Panic ELSE Matrix_set(inverse_mat, j, i, FDiv(c, det)).m

\* the loops of inverse: over j for one i, and over i; Panic when a call aborted
RECURSIVE InverseCols(_, _, _, _)
InverseCols(self, det, i, st) ==
    IF st.j >= self.ncols \/ st.inverse_mat = Panic THEN st.inverse_mat
    ELSE InverseCols(self, det, i,
            [inverse_mat |-> InverseCell(st.inverse_mat, det, i, st.j,
                                         Matrix_cofactor(self, i, st.j)),
             j |-> st.j + 1])

RECURSIVE InverseRows(_, _, _)
InverseRows(self, det, st) ==
    IF st.i >= self.nrows \/ st.inverse_mat = Panic THEN st.inverse_mat
    ELSE InverseRows(self, det,
            [inverse_mat |-> InverseCols(self, det, st.i,
                                         [inverse_mat |-> st.inverse_mat, j |-> 0]),
             i |-> st.i + 1])

\* inverse from line 128 on, det computed
\* InverseOf without the test of the determinant
InverseOf_unchecked(self, det) ==
    Some(InverseRows(self, det, [inverse_mat |-> Matrix_new(self.nrows, self.ncols), i |-> 0]))

\* the Option inverse returns, its loops done
InverseDone(inverse_mat) == IF inverse_mat = Panic THEN Panic ELSE Some(inverse_mat)

\* inverse from line 128 on: det is det()'s result, Boom when det() aborted
InverseOf(self, det) ==
    IF det = Boom THEN Panic
    ELSE IF FEq(det, Zero) THEN None
    ELSE InverseDone(InverseRows(self, det,
              [inverse_mat |-> Matrix_new(self.nrows, self.ncols), i |-> 0]))

Matrix_inverse(self) == InverseOf(self, Matrix_det(self))

Matrix_translation(x, y, z) ==
    Matrix_set(Matrix_set(Matrix_set(Matrix_identity(4), 0, 3, x).m, 1, 3, y).m, 2, 3, z).m

Matrix_scaling(x, y, z) ==
    Matrix_set(Matrix_set(Matrix_set(Matrix_identity(4), 0, 0, x).m, 1, 1, y).m, 2, 2, z).m

\* cos and sin of the angles offered: 0.0 and PI / 2.0, which is 13176795 *
\* 2^-23 in f32; its cos is the f32 -4.371139e-8
HalfPi == <<13176795, -23>>
FCos(angle) == CASE angle = Zero -> One
                 [] angle = HalfPi -> <<-6151831, -47>>
FSin(angle) == CASE angle = Zero -> Zero
                 [] angle = HalfPi -> One

Matrix_rotation_x(angle) ==
    Matrix_from_array(4, 4, <<One, Zero, Zero, Zero,
                              Zero, FCos(angle), FNeg(FSin(angle)), Zero,
                              Zero, FSin(angle), FCos(angle), Zero,
                              Zero, Zero, Zero, One>>).val

Matrix_rotation_y(angle) ==
    Matrix_from_array(4, 4, <<FCos(angle), Zero, FSin(angle), Zero,
                              Zero, One, Zero, Zero,
                              FNeg(FSin(angle)), Zero, FCos(angle), Zero,
                              Zero, Zero, Zero, One>>).val

Matrix_rotation_z(angle) ==
    Matrix_from_array(4, 4, <<FCos(angle), FNeg(FSin(angle)), Zero, Zero,
                              FSin(angle), FCos(angle), Zero, Zero,
                              Zero, Zero, One, Zero,
                              Zero, Zero, Zero, One>>).val

Matrix_shearing(x_y, x_z, y_x, y_z, z_x, z_y) ==
    Matrix_from_array(4, 4, <<One, x_y, x_z, Zero,
                              y_x, One, y_z, Zero,
                              z_x, z_y, One, Zero,
                              Zero, Zero, Zero, One>>).val

\* the loops of mul: over k for one cell (i, j), over j for one i, and over i
RECURSIVE MulCell(_, _, _, _, _)
MulCell(self, rhs, i, j, st) ==
    IF st.k >= self.ncols THEN st.cell_val
    ELSE MulCell(self, rhs, i, j,
            [cell_val |-> FAdd(st.cell_val, FMul(Matrix_index(self, i, st.k),
                                                 Matrix_index(rhs, st.k, j))),
             k |-> st.k + 1])

RECURSIVE MulCols(_, _, _, _)
MulCols(self, rhs, i, st) ==
    IF st.j >= rhs.ncols THEN st.prod
    ELSE MulCols(self, rhs, i,
            [prod |-> Matrix_set(st.prod, i, st.j,
                                 MulCell(self, rhs, i, st.j, [cell_val |-> Zero, k |-> 0])).m,
             j |-> st.j + 1])

RECURSIVE MulRows(_, _, _)
MulRows(self, rhs, st) ==
    IF st.i >= self.nrows THEN st.prod
    ELSE MulRows(self, rhs,
            [prod |-> MulCols(self, rhs, st.i, [prod |-> st.prod, j |-> 0]), i |-> st.i + 1])

\* Matrix_mul testing the rows of both operands
Matrix_mul_rows(self, rhs) ==
    IF self.nrows # rhs.nrows THEN None
    ELSE Some(MulRows(self, rhs, [prod |-> Matrix_new(self.nrows, rhs.ncols), i |-> 0]))

\* Matrix * Matrix (by reference and by value: the same body)
Matrix_mul(self, rhs) ==
    IF self.ncols # rhs.nrows THEN None
    ELSE Some(MulRows(self, rhs, [prod |-> Matrix_new(self.nrows, rhs.ncols), i |-> 0]))

\* Matrix * Tuple from the unwrap of the product on: prod is (self * b)
MulTupleOf(prod) ==
    IF prod = None THEN Panic
    ELSE Some(Tuple_new(Matrix_index(prod.val, 0, 0), Matrix_index(prod.val, 1, 0),
                        Matrix_index(prod.val, 2, 0), Matrix_index(prod.val, 3, 0)))

\* Matrix * Tuple from the unwrap of from_array on: b is from_array's result
MulTupleBy(self, b) ==
    IF b = None THEN Panic ELSE MulTupleOf(Matrix_mul(self, b.val))

\* Matrix * Tuple (by reference and by value: the same body)
Matrix_mul_tuple(self, rhs) ==
    IF self.ncols # 4 THEN None
    ELSE MulTupleBy(self, Matrix_from_array(self.nrows, 1, <<rhs.x, rhs.y, rhs.z, rhs.w>>))

\* the loop of PartialEq over vals
Matrix_eq(self, other) ==
    /\ Matrix_shape(self) = Matrix_shape(other)
    /\ \A i \in 1..Len(self.vals) : is_equal(self.vals[i], other.vals[i])


(***************************************************************************)
(* ray.rs                                                                  *)
(***************************************************************************)
Ray_new(origin, direction) == [origin |-> origin, direction |-> direction]

\* position(&self, t): Mul<f32> keeps the direction's w and Add adds the origin's to it
Ray_position(self, t) == Tuple_add(Tuple_mul(self.direction, t), self.origin)

\* transform(&self, transform): both products are unwrapped
Ray_unwrapped(o, d) ==
    IF o.kind # "Some" \/ d.kind # "Some" THEN Panic
    ELSE [origin |-> o.val, direction |-> d.val]

\* Ray_transform with the direction copied, not multiplied
Ray_transform_origin(self, transform) ==
    Ray_unwrapped(Matrix_mul_tuple(transform, self.origin), Some(self.direction))

Ray_transform(self, transform) ==
    Ray_unwrapped(Matrix_mul_tuple(transform, self.origin),
                  Matrix_mul_tuple(transform, self.direction))

(***************************************************************************)
(* intersection.rs.  An Intersection is [object, point]; object stands for *)
(* the reference to the object hit.                                        *)
(***************************************************************************)
Intersection_new(object, point) == [object |-> object, point |-> point]

\* Ord::cmp
Intersection_cmp(self, other) ==
    IF is_equal(self.point, other.point) THEN "Equal"
    ELSE IF FLt(self.point, other.point) THEN "Less"
    ELSE "Greater"

\* PartialOrd::partial_cmp: always Some(..), here the ordering itself
Intersection_partial_cmp(self, other) ==
    IF is_equal(self.point, other.point) THEN "Equal"
    ELSE IF FLt(self.point, other.point) THEN "Less"
    ELSE "Greater"

\* PartialEq::eq
Intersection_eq(self, other) ==
    self.object = other.object /\ FEq(self.point, other.point)

\* Reverse(x) <= Reverse(y), the comparison BinaryHeap<Reverse<_>> makes: the
\* standard library's Reverse turns it into y <= x, and <= is PartialOrd's
\* default, partial_cmp giving Less or Equal
Reverse_le(x, y) == Intersection_partial_cmp(y, x) \in {"Less", "Equal"}

\* BinaryHeap::push's sift_up of the element at pos (0-based) of data
RECURSIVE SiftUp(_, _)
SiftUp(data, pos) ==
    IF pos = 0 THEN data
    ELSE LET parent == (pos - 1) \div 2
         IN IF Reverse_le(data[pos + 1], data[parent + 1]) THEN data
            ELSE SiftUp([data EXCEPT ![pos + 1] = data[parent + 1],
                                     ![parent + 1] = data[pos + 1]], parent)

\* BinaryHeap::push and BinaryHeap::peek on the heap's Vec
Heap_push(data, item) == SiftUp(Append(data, item), Len(data))
Heap_peek(data) == IF Len(data) = 0 THEN None ELSE Some(data[1])

Intersections_new_empty ==
    [pos_intersections |-> <<>>, neg_intersections |-> <<>>, merged_intersections |-> <<>>]

Intersections_with_capacity(capacity) == Intersections_new_empty

\* add_point putting the intersection in front of merged_intersections
Intersections_add_point_front(self, intersection) ==
    IF FLt(Zero, intersection.point)
    THEN [self EXCEPT !.merged_intersections = <<intersection>> \o @,
                      !.pos_intersections = Heap_push(@, intersection)]
    ELSE [self EXCEPT !.merged_intersections = <<intersection>> \o @,
                      !.neg_intersections = Heap_push(@, intersection)]

Intersections_add_point(self, intersection) ==
    IF FLt(Zero, intersection.point)
    THEN [self EXCEPT !.merged_intersections = Append(@, intersection),
                      !.pos_intersections = Heap_push(@, intersection)]
    ELSE [self EXCEPT !.merged_intersections = Append(@, intersection),
                      !.neg_intersections = Heap_push(@, intersection)]

\* the loop of new over the vector given
RECURSIVE NewLoop(_, _)
NewLoop(intersections, st) ==
    IF st.n >= Len(intersections) THEN st.xs
    ELSE LET i == intersections[st.n + 1]
         IN NewLoop(intersections,
               [xs |-> IF FLt(Zero, i.point)
                       THEN [st.xs EXCEPT !.merged_intersections = Append(@, i),
                                          !.pos_intersections = Heap_push(@, i)]
                       ELSE [st.xs EXCEPT !.merged_intersections = Append(@, i),
                                          !.neg_intersections = Heap_push(@, i)],
                n |-> st.n + 1])

Intersections_new(intersections) ==
    NewLoop(intersections, [xs |-> Intersections_new_empty, n |-> 0])

Intersections_hit(self) ==
    LET p == Heap_peek(self.pos_intersections)
    IN IF p = None THEN None ELSE Some(p.val)

Intersections_len(self) == Len(self.merged_intersections)

\* Index<usize>: Vec's own index check
Intersections_index(self, idx) ==
    IF idx < Len(self.merged_intersections) THEN Some(self.merged_intersections[idx + 1])
    ELSE Panic

(***************************************************************************)
(* color.rs, light.rs, material.rs                                         *)
(***************************************************************************)
Color_new(red, green, blue) == [red |-> red, green |-> green, blue |-> blue]
Color_black == Color_new(Zero, Zero, Zero)

Color_add(a, b) ==
    [red |-> FAdd(a.red, b.red), green |-> FAdd(a.green, b.green), blue |-> FAdd(a.blue, b.blue)]

\* Color * Color
Color_mul(a, b) ==
    [red |-> FMul(a.red, b.red), green |-> FMul(a.green, b.green), blue |-> FMul(a.blue, b.blue)]

\* Color * f32
\* f32::ceil and then `as u8` of x: the cast saturates, and gives 0 for NaN
CeilAsU8(x) ==
    IF x = NaN \/ x = NInf THEN 0
    ELSE IF x = PInf THEN 255
    ELSE IF x[1] <= 0 THEN 0
    ELSE IF x[2] >= 0 THEN (IF x[1] >= 256 \/ x[2] >= 8 \/ x[1] * (2^x[2]) >= 255 THEN 255
                            ELSE x[1] * (2^x[2]))
    ELSE IF x[2] <= -24 THEN 1
    ELSE IF (x[1] + 2^(-x[2]) - 1) \div (2^(-x[2])) >= 255 THEN 255
    ELSE (x[1] + 2^(-x[2]) - 1) \div (2^(-x[2]))

\* scale_color(&self): cmp::min(255, _) of a u8 is the u8
Color_scale_color(self) ==
    <<CeilAsU8(FMul(self.red, I2F(255))), CeilAsU8(FMul(self.green, I2F(255))),
      CeilAsU8(FMul(self.blue, I2F(255)))>>

\* Text is a sequence of characters.  "{}" of a u8: its decimal digits
Digit(d) == <<"0", "1", "2", "3", "4", "5", "6", "7", "8", "9">>[d + 1]

U8Str(n) ==
    IF n >= 100 THEN <<Digit(n \div 100), Digit((n \div 10) % 10), Digit(n % 10)>>
    ELSE IF n >= 10 THEN <<Digit(n \div 10), Digit(n % 10)>>
    ELSE <<Digit(n)>>

\* Display::fmt on the scaled channels: "{} {} {}"
ColorStr(rgb) == U8Str(rgb[1]) \o <<" ">> \o U8Str(rgb[2]) \o <<" ">> \o U8Str(rgb[3])

Color_fmt(self) == ColorStr(Color_scale_color(self))

Color_scale(a, rhs) ==
    [red |-> FMul(a.red, rhs), green |-> FMul(a.green, rhs), blue |-> FMul(a.blue, rhs)]

Color_eq(a, b) ==
    is_equal(a.red, b.red) /\ is_equal(a.green, b.green) /\ is_equal(a.blue, b.blue)

PointLight_new(intensity, position) == [intensity |-> intensity, position |-> position]

\* 0.1, 0.9 and 200.0 in f32
Tenth == <<13421773, -27>>
NineTenths == <<7549747, -23>>
Shiny == <<25, 3>>

Material_new ==
    [color |-> Color_new(One, One, One), ambient |-> Tenth, diffuse |-> NineTenths,
     specular |-> NineTenths, shininess |-> Shiny]

\* x multiplied by itself n times over: x^(2^n), each product rounded to f32
RECURSIVE PowSquares(_, _)
PowSquares(x, n) == IF n = 0 THEN x ELSE PowSquares(FMul(x, x), n - 1)

\* powf: 1.0 to any power is 1.0; a positive x to the power 200.0, the
\* shininess of Material::new, is x^128 * x^64 * x^8 by repeated squaring in
\* f32, which is the library's result up to the rounding of the last bits
FPowf(x, y) ==
    CASE x = One -> One
      [] x # One /\ y = Shiny -> FMul(FMul(PowSquares(x, 7), PowSquares(x, 6)), PowSquares(x, 3))

\* lighting, lines 34 to 37: the specular term
LightingSpecular(self, light, reflect_dot_eye) ==
    IF FLt(Zero, reflect_dot_eye)
    THEN Color_scale(Color_scale(light.intensity, self.specular),
                     FPowf(reflect_dot_eye, self.shininess))
    ELSE Color_black

\* lighting, lines 31 to 33: the diffuse term, the reflection and its dot with the eye
LightingFacing(self, light, eyev, normalv, effective_color, lightv, light_dot_normal) ==
    Color_add(
        Color_add(Color_scale(effective_color, self.ambient),
                  Color_scale(Color_scale(effective_color, self.diffuse), light_dot_normal)),
        LightingSpecular(self, light,
                         Tuple_dot(eyev, Tuple_neg(Tuple_reflect(lightv, normalv)))))

\* LightingDot without the test of line 30: the terms computed whatever the side
LightingDot_unsided(self, light, eyev, normalv, effective_color, lightv, light_dot_normal) ==
    LightingFacing(self, light, eyev, normalv, effective_color, lightv, light_dot_normal)

\* lighting, lines 26 to 30 and 39
LightingDot(self, light, eyev, normalv, effective_color, lightv, light_dot_normal) ==
    IF FLe(Zero, light_dot_normal)
    THEN LightingFacing(self, light, eyev, normalv, effective_color, lightv, light_dot_normal)
    ELSE Color_add(Color_add(Color_scale(effective_color, self.ambient), Color_black),
                   Color_black)

\* lighting, line 27
LightingToward(self, light, eyev, normalv, effective_color, lightv) ==
    LightingDot(self, light, eyev, normalv, effective_color, lightv, Tuple_dot(lightv, normalv))

\* lighting(&self, light, position, eyev, normalv)
Material_lighting(self, light, position, eyev, normalv) ==
    LightingToward(self, light, eyev, normalv,
                   Color_mul(self.color, light.intensity),
                   Tuple_normalize(Tuple_sub(light.position, position)))

(***************************************************************************)
(* sphere.rs.  A Sphere is [id, transform, material].                      *)
(***************************************************************************)
Sphere_new(id) == [id |-> id, transform |-> Matrix_identity(4), material |-> Material_new]

Sphere_set_transform(self, transform) == [self EXCEPT !.transform = transform]

\* IntersectRoots with the test of line 41 turned round
IntersectRoots_descending(self, x1, x2) ==
    IF FLt(x2, x1)
    THEN Intersections_add_point(
             Intersections_add_point(Intersections_with_capacity(2),
                                     Intersection_new(self, x1)),
             Intersection_new(self, x2))
    ELSE Intersections_add_point(
             Intersections_add_point(Intersections_with_capacity(2),
                                     Intersection_new(self, x2)),
             Intersection_new(self, x1))

\* intersect from line 41 on: the two roots computed
IntersectRoots(self, x1, x2) ==
    IF FLt(x1, x2)
    THEN Intersections_add_point(
             Intersections_add_point(Intersections_with_capacity(2),
                                     Intersection_new(self, x1)),
             Intersection_new(self, x2))
    ELSE Intersections_add_point(
             Intersections_add_point(Intersections_with_capacity(2),
                                     Intersection_new(self, x2)),
             Intersection_new(self, x1))

\* intersect from line 35 on: a, b and the discriminant computed
IntersectDiscriminant(self, a, b, discriminant) ==
    IF FLt(discriminant, Zero) THEN Intersections_new_empty
    ELSE IntersectRoots(self,
            FDiv(FSub(FNeg(b), FSqrt(discriminant)), FMul(Two, a)),
            FDiv(FAdd(FNeg(b), FSqrt(discriminant)), FMul(Two, a)))

\* intersect, line 34: a, b and c computed
IntersectQuadratic(self, a, b, c) ==
    IntersectDiscriminant(self, a, b, FSub(FMul(b, b), FMul(FMul(Four, a), c)))

\* intersect, lines 31 to 33
IntersectFrom(self, transformed_ray, sphere_to_ray) ==
    IntersectQuadratic(self,
        Tuple_dot(transformed_ray.direction, transformed_ray.direction),
        FMul(Two, Tuple_dot(transformed_ray.direction, sphere_to_ray)),
        FSub(Tuple_dot(sphere_to_ray, sphere_to_ray), One))

\* intersect, line 30: the ray transformed, or Panic from its unwraps
IntersectRay(self, transformed_ray) ==
    IF transformed_ray = Panic THEN Panic
    ELSE IntersectFrom(self, transformed_ray,
                       Tuple_sub(transformed_ray.origin, Tuple_point(Zero, Zero, Zero)))

\* IntersectInverse with the transform itself applied to the ray, not its inverse
IntersectInverse_forward(self, ray, inv) ==
    IF inv = None THEN Panic ELSE IntersectRay(self, Ray_transform(ray, self.transform))

\* intersect, line 29: inv is inverse()'s result, unwrapped here
IntersectInverse(self, ray, inv) ==
    IF inv = None THEN Panic ELSE IntersectRay(self, Ray_transform(ray, inv.val))

\* intersect(&self, ray): the Intersections returned, or Panic
Sphere_intersect(self, ray) == IntersectInverse(self, ray, Matrix_inverse(self.transform))

\* normal_at, lines 56 and 57: world_normal is the unwrapped product of line 55
NormalAtWorld(world_normal) ==
    IF world_normal.kind # "Some" THEN Panic
    ELSE Tuple_normalize(Tuple_vector(world_normal.val.x, world_normal.val.y, world_normal.val.z))

\* normal_at, lines 54 and 55: object_point is the product of line 53, unwrapped here
NormalAtObject(transform_inverse, object_point) ==
    IF object_point.kind # "Some" THEN Panic
    ELSE NormalAtWorld(Matrix_mul_tuple(Matrix_transpose(transform_inverse),
                           Tuple_sub(object_point.val, Tuple_point(Zero, Zero, Zero))))

\* normal_at, lines 52 and 53: inv is inverse()'s result, unwrapped here
NormalAtInverse(point, inv) ==
    IF inv = None THEN Panic
    ELSE NormalAtObject(inv.val, Matrix_mul_tuple(inv.val, point))

\* normal_at(&self, point): the normal returned, or Panic
Sphere_normal_at(self, point) == NormalAtInverse(point, Matrix_inverse(self.transform))

(***************************************************************************)
(* canvas.rs.  A Canvas is [width, height, pixels]; pixels is the Vec, row  *)
(* after row, and pixels[k + 1] here is its element k.                     *)
(***************************************************************************)
Canvas_new(width, height) ==
    [width |-> width, height |-> height, pixels |-> [k \in 1..(height * width) |-> Color_new(Zero, Zero, Zero)]]

\* write_pixel(&mut self, x, y, color): the canvas after the call
Canvas_write_pixel(self, x, y, color) ==
    IF y * self.width + x >= Len(self.pixels) THEN self
    ELSE [self EXCEPT !.pixels[y * self.width + x + 1] = color]

\* gen_ppm_body: the body of the inner loop for a pixel printed as color_str;
\* st is [lines, output_row]
PpmPixel(st, color_str) ==
    IF Len(st.output_row) + Len(color_str) + 1 > 70
    THEN [lines |-> Append(st.lines, st.output_row), output_row |-> color_str]
    ELSE [lines |-> st.lines,
          output_row |-> IF Len(st.output_row) # 0
                         THEN st.output_row \o <<" ">> \o color_str
                         ELSE color_str]

\* the inner loop over pixels_row from its pixel k (1-based)
RECURSIVE PpmRow(_, _, _)
PpmRow(pixels_row, k, st) ==
    IF k > Len(pixels_row) THEN st
    ELSE PpmRow(pixels_row, k + 1, PpmPixel(st, Color_fmt(pixels_row[k])))

\* lines.push(output_row) after the inner loop
PpmRowDone(st) == Append(st.lines, st.output_row)

\* the outer loop from pixel index i; the slice i..i + width is inside
\* pixels, whose length is height * width
RECURSIVE PpmRows(_, _, _)
PpmRows(self, i, lines) ==
    IF i >= Len(self.pixels) THEN lines
    ELSE PpmRows(self, i + self.width,
                 PpmRowDone(PpmRow(SubSeq(self.pixels, i + 1, i + self.width), 1,
                                   [lines |-> lines, output_row |-> <<>>])))

\* lines.join("\n") from line k (1-based)
RECURSIVE Join(_, _)
Join(lines, k) ==
    IF k > Len(lines) THEN <<>>
    ELSE IF k = Len(lines) THEN lines[k]
    ELSE lines[k] \o <<"\n">> \o Join(lines, k + 1)

\* gen_ppm_body(&self): Some(text) for the String returned; step_by(0)
\* aborts (the standard library asserts that the step is not 0)
Canvas_gen_ppm_body(self) ==
    IF self.width = 0 THEN Panic
    ELSE Some(Join(Append(PpmRows(self, 0, <<>>), <<>>), 1))

(***************************************************************************)
(* transform.rs.  A TransformBuilder is [matrix]; a call that aborts on    *)
(* its unwrap gives Panic.                                                 *)
(***************************************************************************)
TransformBuilder_new(size) == [matrix |-> Matrix_identity(size)]

\* Self {matrix: result} with result the unwrapped product
BuilderOf(result) == IF result = None THEN Panic ELSE [matrix |-> result.val]

\* BuilderMul with the factors the other way round
BuilderMul_right(self, factor) == BuilderOf(Matrix_mul(self.matrix, factor))

\* the product every call makes: the new factor on the left of the accumulator
BuilderMul(self, factor) == BuilderOf(Matrix_mul(factor, self.matrix))

TransformBuilder_rotate_x(self, angle) == BuilderMul(self, Matrix_rotation_x(angle))
TransformBuilder_rotate_y(self, angle) == BuilderMul(self, Matrix_rotation_y(angle))
TransformBuilder_rotate_z(self, angle) == BuilderMul(self, Matrix_rotation_z(angle))
TransformBuilder_scale(self, x, y, z) == BuilderMul(self, Matrix_scaling(x, y, z))
TransformBuilder_translate(self, x, y, z) == BuilderMul(self, Matrix_translation(x, y, z))
TransformBuilder_shear(self, x_y, x_z, y_x, y_z, z_x, z_y) ==
    BuilderMul(self, Matrix_shearing(x_y, x_z, y_x, y_z, z_x, z_y))
TransformBuilder_build(self) == self.matrix

(***************************************************************************)
(* bin/sphere_cast.rs.  The sweep of main over a canvas of canvas_dim by   *)
(* canvas_dim pixels: i is the row and j the column of an iteration.       *)
(***************************************************************************)
\* 0.2 in f32
Fifth == <<13421773, -26>>

\* lines 13 and 14
CastSphere == [Sphere_new(1) EXCEPT !.material.color = Color_new(One, Fifth, One)]

ray_origin == Tuple_point(Zero, Zero, I2F(-5))
wall_z == I2F(10)
wall_size == I2F(7)
half_wallsize == FDiv(wall_size, Two)
pixel_size(canvas_dim) == FDiv(wall_size, I2F(canvas_dim))

\* lines 28 to 33: the ray r of iteration (i, j)
CastRay(canvas_dim, i, j) ==
    Ray_new(ray_origin,
            Tuple_normalize(
                Tuple_sub(Tuple_point(FAdd(FNeg(half_wallsize),
                                           FMul(pixel_size(canvas_dim), I2F(j))),
                                      FSub(half_wallsize,
                                           FMul(I2F(i), pixel_size(canvas_dim))),
                                      wall_z),
                          ray_origin)))

\* lines 36 to 38: the colour at point, where the ray r met the object of h
CastLit(s, lt, r, h, point, nrm) ==
    IF nrm = Panic THEN Panic
    ELSE Material_lighting(s.material, lt, point, Tuple_neg(r.direction), nrm)

CastNormal(s, lt, r, h, point) ==
    CastLit(s, lt, r, h, point, Sphere_normal_at(h.object, point))

\* lines 35 to 38
CastShade(s, lt, r, h) == CastNormal(s, lt, r, h, Ray_position(r, h.point))

\* CastWrite with the row given as the column and the column as the row
CastWrite_swapped(cv, i, j, color) ==
    IF color = Panic THEN Panic ELSE Canvas_write_pixel(cv, i, j, color)

\* line 39
CastWrite(cv, i, j, color) ==
    IF color = Panic THEN Panic ELSE Canvas_write_pixel(cv, j, i, color)

\* line 34: found is what hit() returned on the Intersections of r
CastFound(cv, s, lt, r, i, j, found) ==
    IF found = None THEN cv ELSE CastWrite(cv, i, j, CastShade(s, lt, r, found.val))

CastIntersect(cv, s, lt, r, i, j, inters) ==
    IF inters = Panic THEN Panic
    ELSE CastFound(cv, s, lt, r, i, j, Intersections_hit(inters))

CastBody(cv, s, lt, r, i, j) ==
    IF cv = Panic THEN Panic
    ELSE CastIntersect(cv, s, lt, r, i, j, Sphere_intersect(s, r))

\* lines 28 to 40: the canvas after the body of the loops for iteration (i, j)
CastPixel(cv, s, lt, canvas_dim, i, j) ==
    CastBody(cv, s, lt, CastRay(canvas_dim, i, j), i, j)

\* lines 27 to 42: the canvas after the iterations numbered k and above, in
\* the order of the loops; iteration k is row k \div canvas_dim, column
\* k % canvas_dim
RECURSIVE CastSweepFrom(_, _, _, _, _)
CastSweepFrom(cv, s, lt, canvas_dim, k) ==
    IF k >= canvas_dim * canvas_dim THEN cv
    ELSE CastSweepFrom(CastPixel(cv, s, lt, canvas_dim, k \div canvas_dim, k % canvas_dim),
                       s, lt, canvas_dim, k + 1)

\* lines 12 and 27 to 42
CastSweep(s, lt, canvas_dim) ==
    CastSweepFrom(Canvas_new(canvas_dim, canvas_dim), s, lt, canvas_dim, 0)

(***************************************************************************)
(* The state: a client of the library holding a sphere, a ray, the         *)
(* Intersections it built or got from intersect (xs), the result of the    *)
(* last hit() (hit), two matrices and a tuple, the last matrix operation   *)
(* with its result (last) and the number of set calls made (nset), a       *)
(* TransformBuilder (builder) and the factory matrices of the calls made   *)
(* on it, in order (calls), a canvas and a point light.                    *)
(***************************************************************************)
VARIABLES sphere, ray, xs, hit, normal, matA, matB, tup, last, nset, builder, calls, canvas, light

vars == <<sphere, ray, xs, hit, normal, matA, matB, tup, last, nset, builder, calls, canvas, light>>
otherVars == <<builder, calls, canvas, light>>
geomState == <<sphere, ray, xs, hit, normal>>
geomVars == <<geomState, otherVars>>
matVars == <<matA, matB, tup, last, nset, otherVars>>

\* no call made yet
NotCalled == [kind |-> "NotCalled"]
NoOp == [op |-> "none"]

\* bounds
MaxNew == 2
MaxLen == 4
MaxZ == 6
MaxY == 2
MaxDim == 4
MaxSeed == 1
MaxBCols == 2
MaxCellDim == 3
MaxSets == 1
MaxUni == 8
MaxCalls == 3
MaxCanvas == 3
MaxWrites == 1
MaxPixels == 2
MaxShape == 2
MaxOps == 2
MaxPpmWidth == 12
MaxPpmHeight == 2
MaxBuilderSize == 5

\* ray parameters offered to Intersections: -1, 0, 1, and two values above 1
\* by 671 and 1342 units of 2^-23 (about 0.00008 and 0.00016)
TNear == <<8389279, -23>>
TFar  == <<4194975, -22>>
TVals == {I2F(-1), Zero, One, TNear, TFar}

SeqsUpTo(S, n) == UNION {[1..k -> S] : k \in 0..n}

DefaultRay == Ray_new(Tuple_point(Zero, Zero, I2F(-5)), Tuple_vector(Zero, Zero, One))

\* a white light at (-10, 10, -10)
DefaultLight ==
    PointLight_new(Color_new(One, One, One), Tuple_point(I2F(-10), I2F(10), I2F(-10)))

InitOtherIdle ==
    /\ builder = NotCalled
    /\ calls = <<>>
    /\ canvas = Canvas_new(0, 0)
    /\ light = DefaultLight

InitGeomIdle ==
    /\ sphere = Sphere_new(1) /\ ray = DefaultRay /\ xs = NotCalled /\ hit = NotCalled /\ normal = NotCalled
    /\ InitOtherIdle

InitMatIdle ==
    /\ InitOtherIdle
    /\ matA = Matrix_identity(4)
    /\ matB = Matrix_identity(4)
    /\ tup = Tuple_point(Zero, Zero, Zero)
    /\ last = NoOp
    /\ nset = 0

(***************************************************************************)
(* Intersections: new, add_point, hit.  calls is the history of the        *)
(* intersections given: the vector given to new, then each add_point's.    *)
(***************************************************************************)
InitHit ==
    /\ sphere = Sphere_new(1)
    /\ ray = DefaultRay
    /\ \E v \in SeqsUpTo({Intersection_new(Sphere_new(1), p) : p \in TVals}, MaxNew) :
          xs = Some(Intersections_new(v)) /\ calls = v
    /\ hit = NotCalled
    /\ normal = NotCalled
    /\ builder = NotCalled
    /\ canvas = Canvas_new(0, 0)
    /\ light = DefaultLight
    /\ matA = Matrix_identity(4)
    /\ matB = Matrix_identity(4)
    /\ tup = Tuple_point(Zero, Zero, Zero)
    /\ last = NoOp
    /\ nset = 0

AddPoint(p) ==
    /\ xs.kind = "Some"
    /\ Intersections_len(xs.val) < MaxLen
    /\ xs' = Some(Intersections_add_point(xs.val, Intersection_new(sphere, p)))
    /\ calls' = Append(calls, Intersection_new(sphere, p))
    /\ hit' = NotCalled
    /\ UNCHANGED <<sphere, ray, normal, matA, matB, tup, last, nset, builder, canvas, light>>

Hit ==
    /\ xs.kind = "Some"
    /\ hit' = Intersections_hit(xs.val)
    /\ UNCHANGED <<sphere, ray, xs, normal, matVars>>

NextHit == (\E p \in TVals : AddPoint(p)) \/ Hit

SpecHit == InitHit /\ [][NextHit]_vars

(***************************************************************************)
(* Sphere: intersect, then hit on what it returned                         *)
(***************************************************************************)
ZVals == (-MaxZ..MaxZ) \cup {-4097, -4096, 4096, 4097}

Transforms == {Matrix_identity(4),
               Matrix_scaling(Two, Two, Two),
               Matrix_translation(I2F(5), Zero, Zero)}

Rays == {Ray_new(Tuple_point(Zero, I2F(y), I2F(z)), d) :
            y \in 0..MaxY, z \in ZVals,
            d \in {Tuple_vector(Zero, Zero, One), Tuple_vector(Zero, Zero, Zero)}}

InitSphere ==
    /\ sphere \in {Sphere_set_transform(Sphere_new(1), T) : T \in Transforms}
    /\ ray \in Rays
    /\ xs = NotCalled
    /\ hit = NotCalled
    /\ normal = NotCalled
    /\ InitMatIdle

Intersect ==
    /\ xs = NotCalled
    /\ xs' = LET res == Sphere_intersect(sphere, ray)
             IN IF res = Panic THEN Panic ELSE Some(res)
    /\ UNCHANGED <<sphere, ray, hit, normal, matVars>>

NextSphere == Intersect \/ Hit

SpecSphere == InitSphere /\ [][NextSphere]_vars

(***************************************************************************)
(* Sphere: intersect and normal_at, on transforms with and without an      *)
(* inverse                                                                 *)
(***************************************************************************)
\* a matrix of integers
IntMatrix(nrows, ncols, ints) ==
    Matrix_from_array(nrows, ncols, [k \in 1..Len(ints) |-> I2F(ints[k])]).val

\* a transform of rank 3: its second row is twice its first
Singular == IntMatrix(4, 4, <<1, 2, 3, 4,  2, 4, 6, 8,  0, 1, 0, 0,  0, 0, 0, 1>>)

\* transforms that inverse() refuses: a scaling that flattens y, the rank-3
\* matrix, the zero matrix and a 2 x 2 matrix of equal rows
SingularTransforms == {Matrix_scaling(One, Zero, One), Singular, Matrix_new(4, 4),
                       IntMatrix(2, 2, <<1, 2, 1, 2>>)}

AllTransforms == Transforms \cup SingularTransforms

\* the points normal_at is asked about
NormalPoints == {Tuple_point(Zero, Zero, One), Tuple_point(One, Two, Zero),
                 Tuple_point(Zero, Zero, Zero)}

NormalRays == {DefaultRay,
               Ray_new(Tuple_point(Zero, One, Zero), Tuple_vector(One, Zero, Zero)),
               Ray_new(Tuple_point(Zero, Zero, Zero), Tuple_vector(Zero, Zero, One)),
               Ray_new(Tuple_point(I2F(5), Zero, I2F(-5)), Tuple_vector(Zero, Zero, One))}

InitNormal ==
    /\ sphere \in {Sphere_set_transform(Sphere_new(1), T) : T \in AllTransforms}
    /\ ray \in NormalRays
    /\ xs = NotCalled
    /\ hit = NotCalled
    /\ normal = NotCalled
    /\ InitMatIdle

NormalAt(p) ==
    /\ normal = NotCalled
    /\ normal' = LET res == Sphere_normal_at(sphere, p)
                 IN IF res = Panic THEN Panic ELSE Some(res)
    /\ UNCHANGED <<sphere, ray, xs, hit, matVars>>

NextNormal == Intersect \/ Hit \/ (\E p \in NormalPoints : NormalAt(p))

SpecNormal == InitNormal /\ [][NextNormal]_vars

(***************************************************************************)
(* Matrices.  Gen(nrows, ncols, seed) is a matrix of halves between -2 and *)
(* 2 filled from seed.                                                     *)
(***************************************************************************)
GenVal(k, seed) == Canon(((k * k * 3 + k * seed * 5 + seed * 7) % 9) - 4, -1)

Gen(nrows, ncols, seed) ==
    Matrix_from_array(nrows, ncols, [k \in 1..(nrows * ncols) |-> GenVal(k, seed)]).val

Tuples == {Tuple_point(One, Two, I2F(3)), Tuple_vector(<<-1, -1>>, Four, Zero)}

\* the last operation and what it returned
Did(op, ret) == [op |-> op, ret |-> ret]

(***************************************************************************)
(* get and set on one matrix                                               *)
(***************************************************************************)
SetVals == {I2F(7)}

InitCell ==
    /\ InitGeomIdle
    /\ matA \in {Gen(r, c, 1) : r \in 1..MaxCellDim, c \in 1..MaxCellDim}
    /\ matB = Matrix_identity(4)
    /\ tup = Tuple_point(Zero, Zero, Zero)
    /\ last = NoOp
    /\ nset = 0

Get(row, col) ==
    /\ last' = [op |-> "get", row |-> row, col |-> col, val |-> Zero,
                ret |-> Matrix_get(matA, row, col), before |-> matA]
    /\ UNCHANGED <<geomVars, matA, matB, tup, nset>>

Set(row, col, val) ==
    /\ nset < MaxSets
    /\ matA' = Matrix_set(matA, row, col, val).m
    /\ last' = [op |-> "set", row |-> row, col |-> col, val |-> val,
                ret |-> Matrix_set(matA, row, col, val).ret, before |-> matA]
    /\ nset' = nset + 1
    /\ UNCHANGED <<geomVars, matB, tup>>

NextCell ==
    \E row \in 0..MaxCellDim, col \in 0..MaxCellDim :
        Get(row, col) \/ \E val \in SetVals : Set(row, col, val)

SpecCell == InitCell /\ [][NextCell]_vars

(***************************************************************************)
(* products, identity and transpose                                        *)
(***************************************************************************)
InitMul ==
    /\ InitGeomIdle
    /\ matA \in {Gen(r, c, seed) : r \in 1..MaxDim, c \in 1..MaxDim, seed \in 1..MaxSeed}
    /\ matB \in {Gen(r, c, MaxSeed + 1) : r \in 1..MaxDim, c \in 1..MaxBCols}
    /\ tup \in Tuples
    /\ last = NoOp
    /\ nset = 0

Quiet == UNCHANGED <<geomVars, matA, matB, tup, nset>>

Mul == last' = Did("mul", Matrix_mul(matA, matB)) /\ Quiet

IdentityMulLeft ==
    last' = Did("identity_mul_left", Matrix_mul(Matrix_identity(matA.nrows), matA)) /\ Quiet

IdentityMulRight ==
    last' = Did("identity_mul_right", Matrix_mul(matA, Matrix_identity(matA.ncols))) /\ Quiet

IdentityMulTuple ==
    last' = Did("identity_mul_tuple", Matrix_mul_tuple(Matrix_identity(4), tup)) /\ Quiet

Transpose == last' = Did("transpose", Matrix_transpose(matA)) /\ Quiet

TransposeTwice ==
    last' = Did("transpose_twice", Matrix_transpose(Matrix_transpose(matA))) /\ Quiet

MulTuple == last' = Did("mul_tuple", Matrix_mul_tuple(matA, tup)) /\ Quiet

NextMul ==
    \/ Mul
    \/ IdentityMulLeft
    \/ IdentityMulRight
    \/ IdentityMulTuple
    \/ Transpose
    \/ TransposeTwice
    \/ MulTuple

SpecMul == InitMul /\ [][NextMul]_vars

(***************************************************************************)
(* inverse and the round trips through it, as matrix.rs:559-572 makes them *)
(***************************************************************************)
\* unit lower and upper triangular matrices of -1, 0, 1 filled from seed, and
\* their product: an integer matrix of determinant 1
UniLower(seed) ==
    IntMatrix(4, 4, [k \in 1..16 |->
        IF (k - 1) \div 4 = (k - 1) % 4 THEN 1
        ELSE IF (k - 1) \div 4 > (k - 1) % 4
        THEN (((seed * 7919 + k * 1021 + seed * k * 31) \div 7) % 3) - 1
        ELSE 0])

UniUpper(seed) ==
    IntMatrix(4, 4, [k \in 1..16 |->
        IF (k - 1) \div 4 = (k - 1) % 4 THEN 1
        ELSE IF (k - 1) \div 4 < (k - 1) % 4
        THEN (((seed * 6007 + k * 2003 + seed * k * 17) \div 5) % 3) - 1
        ELSE 0])

UniMat(seed) == Matrix_mul(UniLower(seed), UniUpper(seed)).val

\* the exchange of rows 0 and 1: determinant -1
Flip == IntMatrix(4, 4, <<0, 1, 0, 0,  1, 0, 0, 0,  0, 0, 1, 0,  0, 0, 0, 1>>)

\* a and b of test_inverse4
TestA == IntMatrix(4, 4, <<3, -9, 7, 3,  3, -8, 2, -9,  -4, 4, 4, 1,  -6, 5, -1, 1>>)
TestB == IntMatrix(4, 4, <<8, 2, 2, 2,  3, -1, 7, 0,  7, 0, 5, 4,  6, -2, 0, 5>>)

\* a matrix of determinant 14
Det14 == IntMatrix(4, 4, <<8, 0, -6, 5,  3, -7, 2, -1,  -9, 9, -7, 0,  8, -2, 9, 1>>)

InvMats ==
    {UniMat(seed) : seed \in 1..MaxUni}
    \cup {Matrix_mul(Flip, UniMat(1)).val, TestB, Det14,
          Matrix_translation(I2F(5), I2F(-3), Two), Matrix_scaling(Two, I2F(3), Four)}

InvTuples == {Tuple_point(I2F(9), I2F(-2), I2F(8)), Tuple_point(One, Two, I2F(3)),
              Tuple_vector(I2F(-3), Four, I2F(5))}

InitInv ==
    /\ InitGeomIdle
    /\ matA \in InvMats
    /\ matB \in {TestA, Matrix_identity(4)}
    /\ tup \in InvTuples
    /\ last = NoOp
    /\ nset = 0

\* inv * mt, both unwrapped
RoundTripTupleOf(inv, mt) ==
    IF inv.kind # "Some" \/ mt.kind # "Some" THEN Panic
    ELSE Matrix_mul_tuple(inv.val, mt.val)

\* c * inv, both unwrapped
RoundTripMatrixOf(c, inv) ==
    IF c.kind # "Some" \/ inv.kind # "Some" THEN Panic
    ELSE Matrix_mul(c.val, inv.val)

Inverse == last' = Did("inverse", Matrix_inverse(matA)) /\ Quiet

RoundTripTuple ==
    /\ last' = Did("round_trip_tuple",
                   RoundTripTupleOf(Matrix_inverse(matA), Matrix_mul_tuple(matA, tup)))
    /\ Quiet

RoundTripMatrix ==
    /\ last' = Did("round_trip_matrix",
                   RoundTripMatrixOf(Matrix_mul(matB, matA), Matrix_inverse(matA)))
    /\ Quiet

NextInv == Inverse \/ RoundTripTuple \/ RoundTripMatrix

SpecInv == InitInv /\ [][NextInv]_vars

(***************************************************************************)
(* Points(x) is the t of each intersection of x, in the order              *)
(* of insertion.                                                           *)
(***************************************************************************)
Points(x) == [i \in 1..Len(x.merged_intersections) |-> x.merged_intersections[i].point]

(***************************************************************************)
(* TransformBuilder: a chain of calls, then build                          *)
(***************************************************************************)
Angles == {Zero, HalfPi}
ScaleArgs == {<<Two, Two, Two>>, <<Tenth, I2F(3), Tenth>>}
TranslateArgs == {<<One, Two, I2F(3)>>}
ShearArgs == {<<One, Zero, Zero, Two, Zero, Zero>>}
BuilderPoints == {Tuple_point(One, Zero, One), Tuple_point(I2F(3), Tenth, I2F(7))}

InitBuilder ==
    /\ sphere = Sphere_new(1) /\ ray = DefaultRay /\ xs = NotCalled /\ hit = NotCalled /\ normal = NotCalled
    /\ matA = Matrix_identity(4) /\ matB = Matrix_identity(4) /\ nset = 0
    /\ tup \in BuilderPoints
    /\ last = NoOp
    /\ builder = TransformBuilder_new(4)
    /\ calls = <<>>
    /\ canvas = Canvas_new(0, 0)
    /\ light = DefaultLight

\* a call on the builder that returns next, made with the factory matrix factor
Called(next, factor) ==
    /\ builder \notin {NotCalled, Panic}
    /\ Len(calls) < MaxCalls
    /\ builder' = next
    /\ calls' = Append(calls, factor)
    /\ UNCHANGED <<geomState, matA, matB, tup, last, nset, canvas, light>>

RotateX == \E a \in Angles : Called(TransformBuilder_rotate_x(builder, a), Matrix_rotation_x(a))
RotateY == \E a \in {HalfPi} : Called(TransformBuilder_rotate_y(builder, a), Matrix_rotation_y(a))
RotateZ == \E a \in {HalfPi} : Called(TransformBuilder_rotate_z(builder, a), Matrix_rotation_z(a))
Scale ==
    \E a \in ScaleArgs :
        Called(TransformBuilder_scale(builder, a[1], a[2], a[3]), Matrix_scaling(a[1], a[2], a[3]))
Translate ==
    \E a \in TranslateArgs :
        Called(TransformBuilder_translate(builder, a[1], a[2], a[3]),
               Matrix_translation(a[1], a[2], a[3]))
Shear ==
    \E a \in ShearArgs :
        Called(TransformBuilder_shear(builder, a[1], a[2], a[3], a[4], a[5], a[6]),
               Matrix_shearing(a[1], a[2], a[3], a[4], a[5], a[6]))

\* build(self) gives the matrix up and the builder with it
Build ==
    /\ builder \notin {NotCalled, Panic}
    /\ last' = Did("build", TransformBuilder_build(builder))
    /\ builder' = NotCalled
    /\ UNCHANGED <<geomState, matA, matB, tup, nset, calls, canvas, light>>

NextBuilder == RotateX \/ RotateY \/ RotateZ \/ Scale \/ Translate \/ Shear \/ Build

SpecBuilder == InitBuilder /\ [][NextBuilder]_vars

(***************************************************************************)
(* TransformBuilder::new(size) for sizes 1 to MaxBuilderSize; last keeps   *)
(* the size the builder was created with                                   *)
(***************************************************************************)
InitSized ==
    /\ sphere = Sphere_new(1) /\ ray = DefaultRay /\ xs = NotCalled /\ hit = NotCalled /\ normal = NotCalled
    /\ matA = Matrix_identity(4) /\ matB = Matrix_identity(4) /\ nset = 0
    /\ tup = Tuple_point(Zero, Zero, Zero)
    /\ calls = <<>>
    /\ canvas = Canvas_new(0, 0)
    /\ light = DefaultLight
    /\ \E size \in 1..MaxBuilderSize :
          builder = TransformBuilder_new(size) /\ last = [op |-> "new", size |-> size]

BuildSized ==
    /\ builder \notin {NotCalled, Panic}
    /\ last' = [op |-> "build", size |-> last.size, ret |-> TransformBuilder_build(builder)]
    /\ builder' = NotCalled
    /\ UNCHANGED <<geomState, matA, matB, tup, nset, calls, canvas, light>>

NextSized == RotateX \/ RotateY \/ RotateZ \/ Scale \/ Translate \/ Shear \/ BuildSized

SpecSized == InitSized /\ [][NextSized]_vars

(***************************************************************************)
(* Ray: transform by a 4 x 4 matrix                                        *)
(***************************************************************************)
RayTransforms == {Matrix_translation(I2F(3), I2F(4), I2F(5)),
                  Matrix_translation(Tenth, I2F(-3), TFar),
                  Matrix_scaling(Two, I2F(3), Four),
                  Matrix_rotation_x(HalfPi),
                  Matrix_shearing(One, Zero, Zero, Two, Zero, Zero),
                  Matrix_identity(4),
                  Singular}
                 \cup {Gen(4, 4, seed) : seed \in 1..MaxSeed}

RayTuples == {<<I2F(1), I2F(2), I2F(3)>>, <<Zero, One, Zero>>, <<Tenth, I2F(-5), TNear>>}

InitRay ==
    /\ sphere = Sphere_new(1) /\ xs = NotCalled /\ hit = NotCalled /\ normal = NotCalled
    /\ ray \in {Ray_new(Tuple_point(o[1], o[2], o[3]), Tuple_vector(d[1], d[2], d[3])) :
                   o \in RayTuples, d \in RayTuples}
    /\ matA \in RayTransforms
    /\ matB = Matrix_identity(4) /\ tup = Tuple_point(Zero, Zero, Zero) /\ nset = 0
    /\ last = NoOp
    /\ InitOtherIdle

\* transform(&self, &matA): the receiver is only read
TransformRay ==
    /\ last = NoOp
    /\ last' = Did("transform", Ray_transform(ray, matA))
    /\ UNCHANGED <<geomVars, matA, matB, tup, nset>>

\* position(&self, t)
Position(t) ==
    /\ last = NoOp
    /\ last' = Did("position", Ray_position(ray, t))
    /\ UNCHANGED <<geomVars, matA, matB, tup, nset>>

NextRay == TransformRay \/ \E t \in {Zero, One, I2F(-1)} : Position(t)

SpecRay == InitRay /\ [][NextRay]_vars

(***************************************************************************)
(* Tuple: +, -, unary -, * f32, / f32 on points and vectors                *)
(***************************************************************************)
TupleOperands ==
    {Tuple_point(I2F(3), I2F(-2), I2F(5)), Tuple_point(Tenth, TFar, I2F(-7)),
     Tuple_point(Zero, Zero, Zero),
     Tuple_vector(I2F(-2), I2F(3), One), Tuple_vector(Tenth, Tenth, I2F(6)),
     Tuple_vector(Zero, Zero, Zero)}

Scalars == {I2F(2), Tenth, Zero, I2F(-3)}

InitTuple ==
    /\ InitGeomIdle
    /\ matA = Matrix_identity(4) /\ matB = Matrix_identity(4) /\ nset = 0
    /\ tup \in TupleOperands
    /\ last = NoOp

\* one operation on tup, with its right operand and its result
Operated(op, rhs, ret) ==
    /\ last = NoOp
    /\ last' = [op |-> op, rhs |-> rhs, ret |-> ret]
    /\ UNCHANGED <<geomVars, matA, matB, tup, nset>>

TupleAdd == \E b \in TupleOperands : Operated("add", b, Tuple_add(tup, b))
TupleSub == \E b \in TupleOperands : Operated("sub", b, Tuple_sub(tup, b))
TupleNeg == Operated("neg", Zero, Tuple_neg(tup))
TupleMul == \E k \in Scalars : Operated("mul", k, Tuple_mul(tup, k))
TupleDiv == \E k \in Scalars : Operated("div", k, Tuple_div(tup, k))

NextTuple == TupleAdd \/ TupleSub \/ TupleNeg \/ TupleMul \/ TupleDiv

SpecTuple == InitTuple /\ [][NextTuple]_vars

(***************************************************************************)
(* Material: lighting of the point (0, 0, 0) with lights, eyes and normals *)
(* along the axes                                                          *)
(***************************************************************************)
Materials == {Material_new,
              [color |-> Color_new(One, <<1, -1>>, <<1, -2>>), ambient |-> <<1, -1>>,
               diffuse |-> Two, specular |-> One, shininess |-> I2F(10)]}

Lights == {PointLight_new(c, Tuple_point(p[1], p[2], p[3])) :
              c \in {Color_new(One, One, One), Color_new(Two, One, <<1, -1>>)},
              p \in {<<Zero, Zero, I2F(-10)>>, <<Zero, Zero, I2F(10)>>, <<Zero, I2F(10), Zero>>}}

AxisVectors == {Tuple_vector(Zero, Zero, I2F(-1)), Tuple_vector(Zero, Zero, One),
                Tuple_vector(Zero, One, Zero), Tuple_vector(Zero, I2F(-1), Zero)}

InitLight ==
    /\ InitGeomIdle
    /\ matA = Matrix_identity(4) /\ matB = Matrix_identity(4) /\ nset = 0
    /\ tup = Tuple_point(Zero, Zero, Zero)
    /\ last = NoOp

\* m.lighting(&light, &tup, &eyev, &normalv)
Lighting(m, lamp, eyev, normalv) ==
    /\ last = NoOp
    /\ last' = [op |-> "lighting", material |-> m, light |-> lamp, eyev |-> eyev,
                normalv |-> normalv, ret |-> Material_lighting(m, lamp, tup, eyev, normalv)]
    /\ UNCHANGED <<geomVars, matA, matB, tup, nset>>

NextLight ==
    \E m \in Materials, lamp \in Lights, eyev \in AxisVectors, normalv \in AxisVectors :
        Lighting(m, lamp, eyev, normalv)

SpecLight == InitLight /\ [][NextLight]_vars

(***************************************************************************)
(* Canvas: write_pixel at coordinates inside and outside the canvas        *)
(***************************************************************************)
Red == Color_new(One, Zero, Zero)

InitCanvas ==
    /\ sphere = Sphere_new(1) /\ ray = DefaultRay /\ xs = NotCalled /\ hit = NotCalled /\ normal = NotCalled
    /\ matA = Matrix_identity(4) /\ matB = Matrix_identity(4) /\ nset = 0
    /\ tup = Tuple_point(Zero, Zero, Zero)
    /\ last = [op |-> "none", n |-> 0]
    /\ builder = NotCalled /\ calls = <<>> /\ light = DefaultLight
    /\ canvas \in {Canvas_new(w, h) : w \in 1..MaxCanvas, h \in 1..MaxCanvas}

\* canvas.write_pixel(x, y, color); last keeps the call and the canvas before it
WritePixel(x, y, color) ==
    /\ last.n < MaxWrites
    /\ canvas' = Canvas_write_pixel(canvas, x, y, color)
    /\ last' = [op |-> "write_pixel", n |-> last.n + 1, x |-> x, y |-> y, color |-> color,
                before |-> canvas]
    /\ UNCHANGED <<geomState, matA, matB, tup, nset, builder, calls, light>>

NextCanvas == \E x \in 0..MaxCanvas, y \in 0..MaxCanvas, color \in {Red} : WritePixel(x, y, color)

SpecCanvas == InitCanvas /\ [][NextCanvas]_vars

(***************************************************************************)
(* == on Tuple, Color, Matrix and Intersection, and cmp on Intersection,   *)
(* for values that differ in one f32                                       *)
(***************************************************************************)
EqVals == {Zero, One, TNear, TFar, I2F(-1), Tenth}

InitEq ==
    /\ InitGeomIdle
    /\ matA = Matrix_identity(4) /\ matB = Matrix_identity(4) /\ nset = 0
    /\ tup = Tuple_point(Zero, Zero, Zero)
    /\ last = NoOp

\* one comparison of two values that hold v1 and v2 and are otherwise alike
\* (same) or not: of another shape, or referring to another object
Compared(op, v1, v2, same, ret) ==
    /\ last = NoOp
    /\ last' = [op |-> op, v1 |-> v1, v2 |-> v2, same |-> same, ret |-> ret]
    /\ UNCHANGED <<geomVars, matA, matB, tup, nset>>

TupleEq(v1, v2) ==
    Compared("Tuple", v1, v2, TRUE, Tuple_eq(Tuple_point(One, v1, Zero), Tuple_point(One, v2, Zero)))

ColorEq(v1, v2) ==
    Compared("Color", v1, v2, TRUE, Color_eq(Color_new(v1, One, Zero), Color_new(v2, One, Zero)))

MatrixEq(v1, v2) ==
    \E c \in 1..2 :
        Compared("Matrix", v1, v2, c = 2,
                 Matrix_eq(Matrix_from_array(1, 2, <<One, v1>>).val,
                           Matrix_from_array(3 - c, c, <<One, v2>>).val))

IntersectionEq(v1, v2) ==
    \E id \in 1..2 :
        Compared("Intersection", v1, v2, id = 1,
                 Intersection_eq(Intersection_new(Sphere_new(1), v1),
                                 Intersection_new(Sphere_new(id), v2)))

IntersectionCmp(v1, v2) ==
    Compared("cmp", v1, v2, TRUE,
             Intersection_cmp(Intersection_new(Sphere_new(1), v1),
                              Intersection_new(Sphere_new(1), v2)))

\* cmp on each pair of three intersections a, b, c of one sphere
CmpThree(ta, tb, tc) ==
    /\ last = NoOp
    /\ last' = [op |-> "cmp3", ta |-> ta, tb |-> tb, tc |-> tc,
                ab |-> Intersection_cmp(Intersection_new(sphere, ta), Intersection_new(sphere, tb)),
                ba |-> Intersection_cmp(Intersection_new(sphere, tb), Intersection_new(sphere, ta)),
                bc |-> Intersection_cmp(Intersection_new(sphere, tb), Intersection_new(sphere, tc)),
                ac |-> Intersection_cmp(Intersection_new(sphere, ta), Intersection_new(sphere, tc))]
    /\ UNCHANGED <<geomVars, matA, matB, tup, nset>>

NextEq ==
    \E v1 \in EqVals, v2 \in EqVals :
        \/ TupleEq(v1, v2)
        \/ ColorEq(v1, v2)
        \/ MatrixEq(v1, v2)
        \/ IntersectionEq(v1, v2)
        \/ IntersectionCmp(v1, v2)
        \/ \E v3 \in EqVals : CmpThree(v1, v2, v3)

SpecEq == InitEq /\ [][NextEq]_vars

(***************************************************************************)
(* The sweep of bin/sphere_cast.rs with its iterations run in any order: a *)
(* step runs the body of the loops for one iteration (i, j) that has not   *)
(* run yet.  last.done is the set of iterations run so far.  The canvas is *)
(* canvas_dim by canvas_dim for a canvas_dim of CastDims.                  *)
(***************************************************************************)
CastDims == 1..MaxCanvas

InitCast ==
    /\ sphere = CastSphere
    /\ light = DefaultLight
    /\ ray = DefaultRay /\ xs = NotCalled /\ hit = NotCalled /\ normal = NotCalled
    /\ matA = Matrix_identity(4) /\ matB = Matrix_identity(4) /\ nset = 0
    /\ tup = Tuple_point(Zero, Zero, Zero)
    /\ builder = NotCalled /\ calls = <<>>
    /\ canvas \in {Canvas_new(canvas_dim, canvas_dim) : canvas_dim \in CastDims}
    /\ last = NoOp

\* main as written, on a canvas of its own: last.swept is the canvas the loops
\* leave when they run in their order
Sweep ==
    /\ last = NoOp
    /\ canvas # Panic
    /\ last' = [op |-> "sweep", done |-> {}, swept |-> CastSweep(sphere, light, canvas.width)]
    /\ UNCHANGED <<geomState, matA, matB, tup, nset, otherVars>>

\* the body of the loops for iteration (i, j), on the canvas of the state:
\* ray is its r, xs the Intersections of r and hit what hit() returned on them
Pixel(i, j) ==
    /\ last.op \in {"sweep", "pixel"}
    /\ Cardinality(last.done) < MaxPixels
    /\ <<i, j>> \notin last.done
    /\ canvas # Panic
    /\ i < canvas.height /\ j < canvas.width
    /\ ray' = CastRay(canvas.width, i, j)
    /\ xs' = Sphere_intersect(sphere, ray')
    /\ hit' = IF xs' = Panic THEN Panic ELSE Intersections_hit(xs')
    /\ canvas' = IF hit' = Panic THEN Panic
                 ELSE CastFound(canvas, sphere, light, ray', i, j, hit')
    /\ last' = [last EXCEPT !.op = "pixel", !.done = last.done \cup {<<i, j>>}]
    /\ UNCHANGED <<sphere, light, normal, matA, matB, tup, nset, builder, calls>>

NextCast == Sweep \/ (\E i \in 0..(MaxCanvas - 1), j \in 0..(MaxCanvas - 1) : Pixel(i, j))

SpecCast == InitCast /\ [][NextCast]_vars

(***************************************************************************)
(* det, submatrix, minor and cofactor on square matrices of size 2, 3, 4   *)
(***************************************************************************)
DetSizes == {2, 3, 4}

\* the matrices of test_det, test_det_3_by_3 and test_det_4_by_4
TestDet2 == IntMatrix(2, 2, <<1, 5,  -3, 2>>)
TestDet3 == IntMatrix(3, 3, <<1, 2, 6,  -5, 8, -4,  2, 6, 4>>)
TestDet4 == IntMatrix(4, 4, <<-2, -8, 3, 5,  -3, 1, 7, 3,  1, 2, -9, 6,  -6, 7, 7, -9>>)

\* integers from -9 to 9
DetInt(k, seed) == ((k * k * 7 + k * seed * 11 + seed * 5 + k) % 19) - 9

\* entries that are tenths, so that products and sums round
TenthMatrix(n) ==
    Matrix_from_array(n, n, [k \in 1..(n * n) |-> FMul(I2F(DetInt(k, 1)), Tenth)]).val

DetMats ==
    {TestDet2, TestDet3, TestDet4}
    \cup {IntMatrix(n, n, [k \in 1..(n * n) |-> DetInt(k, seed)]) : n \in DetSizes, seed \in 0..MaxSeed}
    \cup {Gen(n, n, 1) : n \in DetSizes}
    \cup {TenthMatrix(n) : n \in DetSizes}

InitDet ==
    /\ InitGeomIdle
    /\ matA \in DetMats
    /\ matB = Matrix_identity(4)
    /\ tup = Tuple_point(Zero, Zero, Zero)
    /\ last = NoOp
    /\ nset = 0

\* one call on matA with a row and a column
DidAt(op, row, col, ret) == [op |-> op, row |-> row, col |-> col, ret |-> ret]

Det == last' = Did("det", Matrix_det(matA)) /\ Quiet

Submatrix(row, col) ==
    /\ row < matA.nrows /\ col < matA.ncols
    /\ last' = DidAt("submatrix", row, col, Matrix_submatrix(matA, row, col))
    /\ Quiet

Minor(row, col) ==
    /\ row < matA.nrows /\ col < matA.ncols
    /\ last' = DidAt("minor", row, col, Matrix_minor(matA, row, col))
    /\ Quiet

Cofactor(row, col) ==
    /\ row < matA.nrows /\ col < matA.ncols
    /\ last' = DidAt("cofactor", row, col, Matrix_cofactor(matA, row, col))
    /\ Quiet

NextDet ==
    \/ Det
    \/ \E row \in 0..3, col \in 0..3 : Submatrix(row, col)
    \/ \E row \in 0..3, col \in 0..3 : Minor(row, col)
    \/ \E row \in 0..3, col \in 0..3 : Cofactor(row, col)

SpecDet == InitDet /\ [][NextDet]_vars

(***************************************************************************)
(* The operations of Matrix on matrices of every shape: rectangular ones,  *)
(* 1x1, and the square matrices of DetMats.  One call is made on matA.     *)
(***************************************************************************)
RectMats == {Gen(r, c, 1) : r \in 1..MaxCellDim, c \in 1..MaxCellDim} \cup DetMats

InitRect ==
    /\ InitGeomIdle
    /\ matA \in RectMats
    /\ matB = Matrix_identity(4)
    /\ tup = Tuple_point(Zero, Zero, Zero)
    /\ last = NoOp
    /\ nset = 0

IsInvertible == last' = Did("is_invertible", Matrix_is_invertible(matA)) /\ Quiet

\* matA[(row, col)]
IndexAt(row, col) ==
    /\ last' = DidAt("index", row, col, Matrix_index(matA, row, col))
    /\ Quiet

\* the product of b and c, both unwrapped
ProductOf(b, c) ==
    IF b.kind # "Some" \/ c.kind # "Some" THEN Panic ELSE Matrix_mul(b.val, c.val)

\* b = matA.inverse(), then matA * b and b * matA
InverseProducts ==
    /\ last' = [op |-> "inverse_products", ret |-> Matrix_inverse(matA),
                ab |-> ProductOf(Some(matA), Matrix_inverse(matA)),
                ba |-> ProductOf(Matrix_inverse(matA), Some(matA))]
    /\ Quiet

\* one call, the first on matA
NextRect ==
    \/ last = NoOp /\ Det
    \/ last = NoOp /\ Inverse
    \/ last = NoOp /\ IsInvertible
    \/ last = NoOp /\ InverseProducts
    \/ \E row \in 0..MaxCellDim, col \in 0..MaxCellDim : last = NoOp /\ Submatrix(row, col)
    \/ \E row \in 0..MaxCellDim, col \in 0..MaxCellDim : last = NoOp /\ Minor(row, col)
    \/ \E row \in 0..MaxCellDim, col \in 0..MaxCellDim : last = NoOp /\ Cofactor(row, col)
    \/ \E row \in 0..MaxCellDim, col \in 0..MaxCellDim : last = NoOp /\ IndexAt(row, col)
    \/ \E row \in 0..MaxCellDim, col \in 0..MaxCellDim : last = NoOp /\ Get(row, col)

SpecRect == InitRect /\ [][NextRect]_vars

(***************************************************************************)
(* The matrices a client reaches through the public API: matA is made by a *)
(* constructor or a factory and then replaced by what set, transpose,      *)
(* submatrix, inverse and * give from it, up to MaxOps calls.  last.n is   *)
(* the number of calls made.  A matrix with a wrapped dimension is not     *)
(* operated on further.                                                    *)
(***************************************************************************)
Factories ==
    {Matrix_translation(One, Two, I2F(3)), Matrix_scaling(Two, Two, Two),
     Matrix_rotation_x(HalfPi), Matrix_rotation_y(HalfPi), Matrix_rotation_z(HalfPi),
     Matrix_shearing(One, Zero, Zero, Two, Zero, Zero)}

InitShape ==
    /\ InitGeomIdle
    /\ matA = Matrix_new(0, 0)
    /\ matB = Matrix_identity(4)
    /\ tup = Tuple_point(Zero, Zero, Zero)
    /\ last = [op |-> "none", n |-> 0]
    /\ nset = 0

\* a call that returned ret, an Option<Matrix> or Panic: matA becomes the
\* matrix returned, if one was
Made(op, args, ret) ==
    /\ last.n < MaxOps
    /\ matA.nrows >= 0 /\ matA.ncols >= 0
    /\ last' = [op |-> op, n |-> last.n + 1, args |-> args, ret |-> ret]
    /\ matA' = IF ret.kind = "Some" THEN ret.val ELSE matA
    /\ UNCHANGED <<geomVars, matB, tup, nset>>

FromArray(nrows, ncols, len) ==
    Made("from_array", <<nrows, ncols, len>>,
         Matrix_from_array(nrows, ncols, [k \in 1..len |-> I2F(k)]))

New(nrows, ncols) == Made("new", <<nrows, ncols>>, Some(Matrix_new(nrows, ncols)))

Identity(size) == Made("identity", <<size>>, Some(Matrix_identity(size)))

Factory(m) == Made("factory", <<>>, Some(m))

SetCell(row, col) ==
    Made("set", <<row, col>>, Some(Matrix_set(matA, row, col, I2F(7)).m))

TransposeIt == Made("transpose", <<>>, Some(Matrix_transpose(matA)))

SubmatrixOf(res) == IF res = Panic THEN Panic ELSE Some(res)

SubmatrixIt(checks, row, col) ==
    Made("submatrix", <<row, col>>,
         SubmatrixOf(Matrix_submatrix_built(checks, matA, row, col)))

InverseIt == Made("inverse", <<>>, Matrix_inverse(matA))

MulIt(rhs) == Made("mul", <<>>, Matrix_mul(matA, rhs))

NextShape ==
    \/ \E nrows \in 0..MaxShape, ncols \in 0..MaxShape, len \in 0..(MaxShape * MaxShape) :
          FromArray(nrows, ncols, len)
    \/ \E nrows \in 0..MaxShape, ncols \in 0..MaxShape : New(nrows, ncols)
    \/ \E size \in 0..MaxShape : Identity(size)
    \/ \E m \in Factories : Factory(m)
    \/ \E row \in 0..MaxShape, col \in 0..MaxShape : SetCell(row, col)
    \/ TransposeIt
    \/ \E checks \in BOOLEAN, row \in 0..MaxShape, col \in 0..MaxShape :
          SubmatrixIt(checks, row, col)
    \/ InverseIt
    \/ \E rhs \in {matA, Matrix_identity(matA.ncols), matB} : MulIt(rhs)

SpecShape == InitShape /\ [][NextShape]_vars

(***************************************************************************)
(* Canvas: gen_ppm_body on canvases of 0 to MaxPpmWidth columns and 0 to   *)
(* MaxPpmHeight rows, black but for the pixels written                     *)
(***************************************************************************)
White == Color_new(One, One, One)
\* the colour (1.5, 0.5, -0.5), printed "255 128 0"
OffScale == Color_new(<<3, -1>>, <<1, -1>>, <<-1, -1>>)

InitPpm ==
    /\ sphere = Sphere_new(1) /\ ray = DefaultRay /\ xs = NotCalled /\ hit = NotCalled /\ normal = NotCalled
    /\ matA = Matrix_identity(4) /\ matB = Matrix_identity(4) /\ nset = 0
    /\ tup = Tuple_point(Zero, Zero, Zero)
    /\ last = [op |-> "none", n |-> 0]
    /\ builder = NotCalled /\ calls = <<>> /\ light = DefaultLight
    /\ canvas \in {Canvas_new(w, h) : w \in 0..MaxPpmWidth, h \in 0..MaxPpmHeight}

GenPpmBody ==
    /\ last.op # "gen_ppm_body"
    /\ last' = [op |-> "gen_ppm_body", n |-> last.n, ret |-> Canvas_gen_ppm_body(canvas)]
    /\ UNCHANGED <<geomState, matA, matB, tup, nset, otherVars>>

NextPpm ==
    \/ \E x \in 0..(MaxPpmWidth - 1), y \in 0..(MaxPpmHeight - 1), color \in {White, OffScale} :
          WritePixel(x, y, color)
    \/ GenPpmBody

SpecPpm == InitPpm /\ [][NextPpm]_vars

(***************************************************************************)
(* The claims                                                              *)
(***************************************************************************)
\* the indices of the recorded intersections with t >= 0
NonNegative(x) == {i \in 1..Len(x.merged_intersections) : FLe(Zero, Points(x)[i])}

\* C1 (as the specification states it): after any sequence of new / add_point
\* calls, hit() returns an intersection with t >= 0 that no recorded
\* intersection with t >= 0 is below (equal under the tolerance counting as
\* not below), and returns none exactly when no recorded t is >= 0.
C1_HitSmallestNonNegative ==
    (xs.kind = "Some" /\ hit # NotCalled) =>
        IF NonNegative(xs.val) = {} THEN hit = None
        ELSE /\ hit.kind = "Some"
             /\ FLe(Zero, hit.val.point)
             /\ \A i \in NonNegative(xs.val) :
                   FLe(hit.val.point, Points(xs.val)[i])
                   \/ is_equal(hit.val.point, Points(xs.val)[i])

\* the quadratic of sphere.rs:31-34 on an object-space ray
QuadA(tr) == Tuple_dot(tr.direction, tr.direction)
QuadB(tr, s2r) == FMul(Two, Tuple_dot(tr.direction, s2r))
QuadC(s2r) == FSub(Tuple_dot(s2r, s2r), One)
QuadDisc(a, b, c) == FSub(FMul(b, b), FMul(FMul(Four, a), c))
DiscOf(tr, s2r) == QuadDisc(QuadA(tr), QuadB(tr, s2r), QuadC(s2r))
\* the object-space ray of the state's sphere and ray, its a and its discriminant
ObjectRay == Ray_transform(ray, Matrix_inverse(sphere.transform).val)
ObjectA == QuadA(ObjectRay)
ObjectDisc == DiscOf(ObjectRay, Tuple_sub(ObjectRay.origin, Tuple_point(Zero, Zero, Zero)))

\* what C2 says of the Intersections x returned for a discriminant disc
TwoAscending(x, disc) ==
    IF FLt(disc, Zero) THEN Len(x.merged_intersections) = 0
    ELSE /\ Len(x.merged_intersections) = 2
         /\ FLe(Points(x)[1], Points(x)[2])
         /\ \A i \in 1..2 : x.merged_intersections[i].object = sphere

\* C2 (amended): when the object-space direction d has d.d > 0, intersect
\* returns no intersections if the discriminant is negative and otherwise
\* exactly two, in ascending order of t, each referencing the sphere.
C2_TwoAscendingIntersections ==
    (xs.kind = "Some" /\ FLt(Zero, ObjectA)) => TwoAscending(xs.val, ObjectDisc)

\* C2 witness: a ray through the sphere has been intersected, the two t differ
C2_Witness ==
    /\ xs.kind = "Some"
    /\ FLt(Zero, ObjectA)
    /\ Len(xs.val.merged_intersections) = 2
    /\ FLt(Points(xs.val)[1], Points(xs.val)[2])

\* C2 (as the specification states it): the same for every ray
C2_Original ==
    xs.kind = "Some" => TwoAscending(xs.val, ObjectDisc)

\* the ray from (0, 0, z0) along (0, 0, 1)
ZRay(z0) == Ray_new(Tuple_point(Zero, Zero, I2F(z0)), Tuple_vector(Zero, Zero, One))

\* what C3 says of the state when the ray is ZRay(z0) and the sphere untransformed
AxisRoots(z0) ==
    (xs.kind = "Some" /\ ray = ZRay(z0) /\ sphere.transform = Matrix_identity(4)) =>
        /\ Points(xs.val) = <<I2F(-z0 - 1), I2F(-z0 + 1)>>
        /\ (hit # NotCalled /\ z0 = -5) => (hit.kind = "Some" /\ hit.val.point = I2F(4))
        /\ (hit # NotCalled /\ z0 = 5) => hit = None

\* C3 (amended): for an untransformed sphere and the ray from (0, 0, z0) along
\* (0, 0, 1), z0 an integer with |z0| <= 4096, intersect yields t = -z0 - 1
\* and t = -z0 + 1 in that order; hit() gives t = 4 for z0 = -5 and none for
\* z0 = 5.  (Up to 4096, z0 * z0 - 1 and the discriminant are exact in f32.)
C3_AxisRayRoots ==
    \A z0 \in ZVals : AbsInt(z0) <= 4096 => AxisRoots(z0)

\* C3 witness: z0 = -5 has been intersected and hit() has returned t = 4
C3_Witness ==
    /\ xs.kind = "Some"
    /\ ray = ZRay(-5)
    /\ sphere.transform = Matrix_identity(4)
    /\ Points(xs.val) = <<I2F(4), I2F(6)>>
    /\ hit.kind = "Some"
    /\ hit.val.point = I2F(4)

\* C3 (as the specification states it): the same for every integer z0
C3_Original ==
    \A z0 \in ZVals : AxisRoots(z0)

\* C4: with the ray from (0, 0, -5) along (0, 0, 1), a sphere scaled by
\* (2, 2, 2) yields exactly t = 3 and t = 7, and a sphere translated by
\* (5, 0, 0) yields no intersection.
C4_TransformedSphere ==
    (xs.kind = "Some" /\ ray = ZRay(-5)) =>
        /\ sphere.transform = Matrix_scaling(Two, Two, Two)
              => Points(xs.val) = <<I2F(3), I2F(7)>>
        /\ sphere.transform = Matrix_translation(I2F(5), Zero, Zero)
              => Len(xs.val.merged_intersections) = 0

\* C4 witness: the scaled sphere has been intersected
C4_Witness ==
    /\ xs.kind = "Some"
    /\ ray = ZRay(-5)
    /\ sphere.transform = Matrix_scaling(Two, Two, Two)
    /\ Points(xs.val) = <<I2F(3), I2F(7)>>

\* equality of tuples and of matrices within the tolerance
TupleApprox(a, b) ==
    is_equal(a.x, b.x) /\ is_equal(a.y, b.y) /\ is_equal(a.z, b.z) /\ is_equal(a.w, b.w)

\* an integer of magnitude at most 9
SmallInt(x) == IsFinite(x) /\ x[2] >= 0 /\ FLe(FAbs(x), I2F(9))
SmallIntTuple(a) == SmallInt(a.x) /\ SmallInt(a.y) /\ SmallInt(a.z) /\ SmallInt(a.w)
SmallIntMatrix(m) == \A k \in 1..Len(m.vals) : SmallInt(m.vals[k])
Unimodular(m) == SmallIntMatrix(m) /\ FAbs(Matrix_det(m)) = One

\* what C5 says of the last round trip
RoundTripsReturn ==
    /\ last.op = "round_trip_tuple"
          => (last.ret.kind = "Some" /\ TupleApprox(last.ret.val, tup))
    /\ last.op = "round_trip_matrix"
          => (last.ret.kind = "Some" /\ Matrix_eq(last.ret.val, matB))

Entry(m, i, j) == m.vals[i * m.ncols + j + 1]

IsSquare(m) == m.nrows = m.ncols

\* C6: for every n x n matrix A, identity(n) * A == A and A * identity(n) ==
\* A (Matrix's ==), and identity(4) * t == t (Tuple's ==) for every tuple t.
C6_IdentityNeutral ==
    /\ (IsSquare(matA) /\ last.op \in {"identity_mul_left", "identity_mul_right"})
          => (last.ret.kind = "Some" /\ Matrix_eq(last.ret.val, matA))
    /\ last.op = "identity_mul_tuple"
          => (last.ret.kind = "Some" /\ Tuple_eq(last.ret.val, tup))

\* C6 witness: identity(4) * A has been computed for a 4 x 4 matrix A
C6_Witness ==
    /\ matA.nrows = 4 /\ matA.ncols = 4
    /\ last.op = "identity_mul_left"
    /\ last.ret.kind = "Some"
    /\ Matrix_eq(last.ret.val, matA)

\* C7: for every square matrix A, A.transpose().transpose() == A, and entry
\* (j, i) of A.transpose() is entry (i, j) of A.
C7_TransposeSquare ==
    IsSquare(matA) =>
        /\ last.op = "transpose"
              => /\ Matrix_shape(last.ret) = Matrix_shape(matA)
                 /\ \A i \in 0..(matA.nrows - 1), j \in 0..(matA.ncols - 1) :
                       Entry(last.ret, j, i) = Entry(matA, i, j)
        /\ last.op = "transpose_twice" => Matrix_eq(last.ret, matA)

\* C7 witness: a 3 x 3 matrix that is not symmetric has been transposed
C7_Witness ==
    /\ matA.nrows = 3 /\ matA.ncols = 3
    /\ last.op = "transpose"
    /\ last.ret # matA
    /\ Entry(last.ret, 2, 0) = Entry(matA, 0, 2)

\* the sum over k < n of A[i, k] * B[k, j], added in the order of k from 0.0
RECURSIVE SumTo(_, _, _, _, _)
SumTo(A, B, i, j, n) ==
    IF n = 0 THEN Zero
    ELSE FAdd(SumTo(A, B, i, j, n - 1), FMul(Entry(A, i, n - 1), Entry(B, n - 1, j)))

\* C8: A * B is None exactly when A.ncols # B.nrows; otherwise it is a matrix
\* of shape (A.nrows, B.ncols) whose entry (i, j) is the sum over k of
\* A[i, k] * B[k, j].
C8_MulShapeAndEntries ==
    last.op = "mul" =>
        /\ last.ret = None <=> matA.ncols # matB.nrows
        /\ last.ret # None =>
              /\ last.ret.kind = "Some"
              /\ Matrix_shape(last.ret.val) = <<matA.nrows, matB.ncols>>
              /\ Len(last.ret.val.vals) = matA.nrows * matB.ncols
              /\ \A i \in 0..(matA.nrows - 1), j \in 0..(matB.ncols - 1) :
                    Entry(last.ret.val, i, j) = SumTo(matA, matB, i, j, matA.ncols)

\* C8 witness: a 2 x 3 and a 3 x 2 matrix have been multiplied
C8_Witness ==
    /\ matA.nrows = 2 /\ matA.ncols = 3 /\ matB.nrows = 3 /\ matB.ncols = 2
    /\ last.op = "mul"
    /\ last.ret.kind = "Some"
    /\ Matrix_shape(last.ret.val) = <<2, 2>>

\* C9 (as the specification states it): matrix x tuple returns a tuple when
\* ncols = 4 and None when ncols # 4, whatever nrows, and never aborts.
C9_MulTupleNeverFatal ==
    last.op = "mul_tuple" =>
        IF matA.ncols = 4 THEN last.ret.kind = "Some" ELSE last.ret = None

\* is (row, col) a cell of m?
InRange(m, row, col) == row < m.nrows /\ col < m.ncols

\* C10: get(r, c) and set(r, c, v) return None exactly when r >= nrows or
\* c >= ncols; a set out of range changes no cell; a set in range returns the
\* cell's previous value, changes that cell only, and get(r, c) then
\* returns v.
C10_GetSetBounds ==
    /\ last.op = "get" =>
          IF InRange(last.before, last.row, last.col)
          THEN last.ret = Some(Entry(last.before, last.row, last.col))
          ELSE last.ret = None
    /\ last.op = "set" =>
          IF InRange(last.before, last.row, last.col)
          THEN /\ last.ret = Some(Entry(last.before, last.row, last.col))
               /\ Matrix_shape(matA) = Matrix_shape(last.before)
               /\ Len(matA.vals) = Len(last.before.vals)
               /\ \A i \in 0..(matA.nrows - 1), j \in 0..(matA.ncols - 1) :
                     Entry(matA, i, j) = IF i = last.row /\ j = last.col THEN last.val
                                         ELSE Entry(last.before, i, j)
               /\ Matrix_get(matA, last.row, last.col) = Some(last.val)
          ELSE last.ret = None /\ matA = last.before

\* C10 witness: a set in range has changed a cell of a matrix of 2 rows and
\* 3 columns
C10_Witness ==
    /\ last.op = "set"
    /\ last.before.nrows = 2 /\ last.before.ncols = 3
    /\ last.row = 1 /\ last.col = 2
    /\ last.ret.kind = "Some"
    /\ matA # last.before

\* C11: when det() of the sphere's transform is 0.0, intersect and normal_at
\* abort on the unwrap of inverse()'s None: neither returns Intersections or
\* a normal.
C11_SingularTransformAborts ==
    FEq(Matrix_det(sphere.transform), Zero) =>
        /\ xs \in {NotCalled, Panic}
        /\ normal \in {NotCalled, Panic}

\* C11 witness: both calls have been made on the sphere of the rank-3
\* transform and both aborted
C11_Witness ==
    /\ sphere.transform = Singular
    /\ xs = Panic
    /\ normal = Panic


\* Tk * (... * (T2 * T1)) for the first k factory matrices of c; identity(4) for none
RECURSIVE ChainProduct(_, _)
ChainProduct(c, k) ==
    IF k = 0 THEN Matrix_identity(4)
    ELSE IF k = 1 THEN c[1]
    ELSE Matrix_mul(c[k], ChainProduct(c, k - 1)).val

\* Tk * (... * (T1 * p)): the first k factory matrices of c applied to p in turn
RECURSIVE AppliedInTurn(_, _, _)
AppliedInTurn(c, k, p) ==
    IF k = 0 THEN p ELSE Matrix_mul_tuple(c[k], AppliedInTurn(c, k - 1, p)).val

\* C12: build() is the product Tk * (... * (T2 * T1)) of the factory matrices
\* of the calls made, in f32, and identity(4) for no call; and build() * p is
\* Tk * (... * (T1 * p)), T1 applied first and Tk last, within the tolerance.
C12_BuilderOrder ==
    last.op = "build" =>
        /\ last.ret = ChainProduct(calls, Len(calls))
        /\ Matrix_mul_tuple(last.ret, tup).kind = "Some"
        /\ TupleApprox(Matrix_mul_tuple(last.ret, tup).val,
                       AppliedInTurn(calls, Len(calls), tup))

\* C12 witness: a shear, a translation and a scaling by 2 have been built, in
\* that order
C12_Witness ==
    /\ last.op = "build"
    /\ Len(calls) = 3
    /\ calls[1] = Matrix_shearing(One, Zero, Zero, Two, Zero, Zero)
    /\ calls[2] = Matrix_translation(One, Two, I2F(3))
    /\ calls[3] = Matrix_scaling(Two, Two, Two)
    /\ tup = Tuple_point(One, Zero, One)

\* is m a matrix that translation(x, y, z) returns?
IsTranslation(m) ==
    m = Matrix_translation(Matrix_index(m, 0, 3), Matrix_index(m, 1, 3), Matrix_index(m, 2, 3))

\* C13: for a 4 x 4 matrix M, transform(M) returns a ray whose origin is
\* M * origin and whose direction is M * direction, and leaves the receiver as
\* it was; when M is a translation, the direction returned is the receiver's.
C13_RayTransform ==
    [][(last.op = "none" /\ last'.op = "transform") =>
          /\ ray' = ray
          /\ last'.ret # Panic
          /\ Some(last'.ret.origin) = Matrix_mul_tuple(matA, ray.origin)
          /\ Some(last'.ret.direction) = Matrix_mul_tuple(matA, ray.direction)
          /\ IsTranslation(matA) => last'.ret.direction = ray.direction]_vars

\* C13 witness: a ray has been moved by translation(3, 4, 5): its origin has
\* changed and its direction has not
C13_Witness ==
    /\ last.op = "transform"
    /\ matA = Matrix_translation(I2F(3), I2F(4), I2F(5))
    /\ last.ret.origin # ray.origin
    /\ last.ret.direction = ray.direction


\* a point has w = 1.0 and a vector w = 0.0
IsPoint(t) == t.w = One
IsVector(t) == t.w = Zero

\* the x, y and z of ret are the three values given
HasXYZ(ret, x, y, z) == ret.x = x /\ ret.y = y /\ ret.z = z

\* C14: point - point is a vector; point + vector and point - vector are
\* points; vector + vector and vector - vector are vectors; negation,
\* multiplication and division by a scalar keep w; x, y and z are combined
\* component by component.
C14_TupleClosed ==
    /\ last.op = "add" =>
         /\ HasXYZ(last.ret, FAdd(tup.x, last.rhs.x), FAdd(tup.y, last.rhs.y), FAdd(tup.z, last.rhs.z))
         /\ (IsPoint(tup) /\ IsVector(last.rhs)) => IsPoint(last.ret)
         /\ (IsVector(tup) /\ IsVector(last.rhs)) => IsVector(last.ret)
    /\ last.op = "sub" =>
         /\ HasXYZ(last.ret, FSub(tup.x, last.rhs.x), FSub(tup.y, last.rhs.y), FSub(tup.z, last.rhs.z))
         /\ (IsPoint(tup) /\ IsPoint(last.rhs)) => IsVector(last.ret)
         /\ (IsPoint(tup) /\ IsVector(last.rhs)) => IsPoint(last.ret)
         /\ (IsVector(tup) /\ IsVector(last.rhs)) => IsVector(last.ret)
    /\ last.op = "neg" =>
         /\ last.ret.w = tup.w
         /\ HasXYZ(last.ret, FNeg(tup.x), FNeg(tup.y), FNeg(tup.z))
    /\ last.op = "mul" =>
         /\ last.ret.w = tup.w
         /\ HasXYZ(last.ret, FMul(tup.x, last.rhs), FMul(tup.y, last.rhs), FMul(tup.z, last.rhs))
    /\ last.op = "div" =>
         /\ last.ret.w = tup.w
         /\ HasXYZ(last.ret, FDiv(tup.x, last.rhs), FDiv(tup.y, last.rhs), FDiv(tup.z, last.rhs))

\* C14 witness: a point has been negated and is still a point
C14_Witness ==
    /\ last.op = "neg"
    /\ tup = Tuple_point(I2F(3), I2F(-2), I2F(5))
    /\ last.ret = Tuple_point(I2F(-3), I2F(2), I2F(-5))


\* the dot of the unit vector from the lit point to the light with the normal
LightDotNormal == Tuple_dot(Tuple_normalize(Tuple_sub(last.light.position, tup)), last.normalv)

\* the ambient term of the last lighting
AmbientTerm == Color_scale(Color_mul(last.material.color, last.light.intensity), last.material.ambient)

\* the case of C15: the default material, a white light at (0, 0, z), the
\* eye and the normal at (0, 0, -1)
InFront(z) ==
    /\ last.op = "lighting"
    /\ last.material = Material_new
    /\ last.light = PointLight_new(Color_new(One, One, One), Tuple_point(Zero, Zero, I2F(z)))
    /\ last.eyev = Tuple_vector(Zero, Zero, I2F(-1))
    /\ last.normalv = Tuple_vector(Zero, Zero, I2F(-1))

\* 1.9 in f32
OnePointNine == <<15938355, -23>>

\* C15: when the light vector's dot with the normal is negative, lighting
\* returns the ambient term alone, whatever the eye; on the default material
\* with a white light, the point (0, 0, 0), eye and normal (0, 0, -1), a light
\* at (0, 0, -10) gives Color(1.9, 1.9, 1.9), which is not clamped to 1, and a
\* light at (0, 0, 10) gives Color(0.1, 0.1, 0.1).
C15_Lighting ==
    /\ (last.op = "lighting" /\ FLt(LightDotNormal, Zero)) => last.ret = AmbientTerm
    /\ InFront(-10) => Color_eq(last.ret, Color_new(OnePointNine, OnePointNine, OnePointNine))
    /\ InFront(10) => Color_eq(last.ret, Color_new(Tenth, Tenth, Tenth))

\* C15 witness: the light at (0, 0, -10) in front of the surface has given a
\* colour above 1
C15_Witness ==
    /\ InFront(-10)
    /\ FLt(One, last.ret.red)


\* the pixel of canvas c at column x, row y
PixelAt(c, x, y) == c.pixels[y * c.width + x + 1]

\* C16 (as the specification states it): write_pixel(x, y, c) with x < width
\* and y < height sets the pixel at column x, row y to c and leaves every
\* other pixel as it was; with x >= width or y >= height it leaves every
\* pixel as it was.
C16_WriteOnlyAddressed ==
    last.op = "write_pixel" =>
        IF last.x < canvas.width /\ last.y < canvas.height
        THEN /\ PixelAt(canvas, last.x, last.y) = last.color
             /\ \A x \in 0..(canvas.width - 1), y \in 0..(canvas.height - 1) :
                    <<x, y>> # <<last.x, last.y>> =>
                        PixelAt(canvas, x, y) = PixelAt(last.before, x, y)
        ELSE canvas = last.before


\* C17 (as the specification states it): == on Tuple, Color, Matrix and
\* Intersection holds exactly when the two values have the same shape or
\* object and every pair of f32 components is within the tolerance, as cmp
\* on Intersection gives Equal exactly then.
C17_EqualityWithinTolerance ==
    /\ last.op \in {"Tuple", "Color", "Matrix", "Intersection"} =>
           (last.ret <=> (last.same /\ is_equal(last.v1, last.v2)))
    /\ last.op = "cmp" => ((last.ret = "Equal") <=> is_equal(last.v1, last.v2))


\* Ordering::reverse
Reversed(o) == CASE o = "Less" -> "Greater" [] o = "Greater" -> "Less" [] o = "Equal" -> "Equal"

\* C18 (as the specification states it): cmp(a, b) is one of Less, Equal and
\* Greater and the reverse of cmp(b, a), and cmp is transitive: when cmp(a, b)
\* and cmp(b, c) are the same, Equal included, cmp(a, c) is that too.
C18_CmpTotalOrder ==
    last.op = "cmp3" =>
        /\ last.ab \in {"Less", "Equal", "Greater"}
        /\ last.ab = Reversed(last.ba)
        /\ last.ab = last.bc => last.ac = last.ab

\* the iteration a step of the sweep has just run
Ran(before, after) == CHOOSE it \in after \ before : TRUE

\* C19: a step that runs the body of the loops for one iteration (i, j), in
\* whatever order the iterations are taken, leaves the sphere and the light
\* as they were and the ray as it was built; (i, j) addresses a pixel inside
\* the canvas, column j of row i, that no iteration wrote before, and no
\* other pixel changes; so the canvas holds, at every iteration run so far,
\* the pixel that the loops of main leave there when run in their order, and
\* the pixel of a fresh canvas everywhere else.
C19_PixelsIndependent ==
    [][last'.op = "pixel" =>
          LET it == Ran(last.done, last'.done)
          IN /\ sphere' = sphere /\ light' = light
             /\ ray' = CastRay(canvas.width, it[1], it[2])
             /\ it \notin last.done
             /\ it[2] < canvas.width /\ it[1] < canvas.height
             /\ PixelAt(canvas, it[2], it[1]) = Color_black
             /\ \A x \in 0..(canvas.width - 1), y \in 0..(canvas.height - 1) :
                   /\ <<y, x>> # it => PixelAt(canvas', x, y) = PixelAt(canvas, x, y)
                   /\ PixelAt(canvas', x, y) =
                          IF <<y, x>> \in last'.done THEN PixelAt(last'.swept, x, y)
                          ELSE Color_black]_vars

\* two iterations that both write were run against the order of the loops,
\* row 2 column 1 before row 1 column 2, and both pixels are lit
C19_Witness ==
    /\ last.op = "pixel"
    /\ last.done = {<<1, 2>>, <<2, 1>>}
    /\ ray = CastRay(canvas.width, 1, 2)
    /\ hit.kind = "Some"
    /\ PixelAt(canvas, 2, 1) # Color_black
    /\ PixelAt(canvas, 1, 2) # Color_black

\* m with row r and column c removed
Removed(m, r, c) ==
    [nrows |-> m.nrows - 1, ncols |-> m.ncols - 1,
     vals |-> [k \in 1..((m.nrows - 1) * (m.ncols - 1)) |->
                  Entry(m,
                        IF (k - 1) \div (m.ncols - 1) < r THEN (k - 1) \div (m.ncols - 1)
                        ELSE ((k - 1) \div (m.ncols - 1)) + 1,
                        IF (k - 1) % (m.ncols - 1) < c THEN (k - 1) % (m.ncols - 1)
                        ELSE ((k - 1) % (m.ncols - 1)) + 1)]]

\* the determinant as the specification defines it, in f32: ad - bc for 2x2,
\* else the sum over j, from the left, of A[0,j] * cofactor(0,j)
RECURSIVE LaplaceDet(_)
LaplaceMinor(m, r, c) == LaplaceDet(Removed(m, r, c))
LaplaceCofactor(m, r, c) ==
    IF (r + c) % 2 = 1 THEN FNeg(LaplaceMinor(m, r, c)) ELSE LaplaceMinor(m, r, c)
RECURSIVE LaplaceSum(_, _)
LaplaceSum(m, n) ==
    IF n = 0 THEN Zero
    ELSE FAdd(LaplaceSum(m, n - 1), FMul(Entry(m, 0, n - 1), LaplaceCofactor(m, 0, n - 1)))
LaplaceDet(m) ==
    IF m.nrows = 2 /\ m.ncols = 2
    THEN FSub(FMul(Entry(m, 0, 0), Entry(m, 1, 1)), FMul(Entry(m, 0, 1), Entry(m, 1, 0)))
    ELSE LaplaceSum(m, m.ncols)

\* the determinant of a matrix of integers, as the sum over the permutations
\* p of the columns of sign(p) * A[0,p(0)] * ... * A[n-1,p(n-1)]
IntOf(x) == x[1] * 2^(x[2])
ColumnPerms(n) == {p \in [0..(n - 1) -> 0..(n - 1)] : \A i, j \in 0..(n - 1) : p[i] = p[j] => i = j}
Inversions(p, n) == Cardinality({ij \in (0..(n - 1)) \X (0..(n - 1)) : ij[1] < ij[2] /\ p[ij[1]] > p[ij[2]]})
RECURSIVE PermProduct(_, _, _)
PermProduct(m, p, i) ==
    IF i = m.nrows THEN 1 ELSE IntOf(Entry(m, i, p[i])) * PermProduct(m, p, i + 1)
RECURSIVE SumOver(_, _)
SumOver(m, ps) ==
    IF ps = {} THEN 0
    ELSE LET p == CHOOSE q \in ps : TRUE
         IN (IF Inversions(p, m.nrows) % 2 = 0 THEN 1 ELSE -1) * PermProduct(m, p, 0)
            + SumOver(m, ps \ {p})
IntDet(m) == SumOver(m, ColumnPerms(m.nrows))

\* C20: for a square matrix of size 2, 3 or 4, det() is ad - bc for 2x2 and
\* otherwise the sum over j of A[0,j] * cofactor(0,j); submatrix(r, c) is the
\* matrix with row r and column c removed; for sizes 3 and 4, minor(r, c) is
\* the determinant of that submatrix and cofactor(r, c) is the minor, negated
\* exactly when r + c is odd; and on a matrix of integers from -9 to 9 det()
\* is exactly the determinant of the matrix.
C20_DetIsDeterminant ==
    (IsSquare(matA) /\ matA.nrows \in {2, 3, 4}) =>
        /\ last.op = "det" =>
              /\ last.ret = LaplaceDet(matA)
              /\ SmallIntMatrix(matA) => last.ret = I2F(IntDet(matA))
        /\ last.op = "submatrix" => last.ret = Removed(matA, last.row, last.col)
        /\ (last.op = "minor" /\ matA.nrows > 2) =>
              /\ last.ret = LaplaceDet(Removed(matA, last.row, last.col))
              /\ SmallIntMatrix(matA) =>
                    last.ret = I2F(IntDet(Removed(matA, last.row, last.col)))
        /\ (last.op = "cofactor" /\ matA.nrows > 2) =>
              last.ret = IF (last.row + last.col) % 2 = 1
                         THEN FNeg(LaplaceMinor(matA, last.row, last.col))
                         ELSE LaplaceMinor(matA, last.row, last.col)

\* det() of the matrix of test_det_4_by_4 returned -4071
C20_Witness ==
    /\ matA = TestDet4
    /\ last.op = "det"
    /\ last.ret = I2F(-4071)

\* C21 (as the specification states it): on a matrix with nrows # ncols, det
\* and cofactor abort and inverse aborts or returns absent; none of them
\* returns a number or a matrix.
C21_SquareOnlyFail ==
    ~IsSquare(matA) =>
        /\ last.op \in {"det", "cofactor"} => last.ret = Boom
        /\ last.op = "inverse" => last.ret \in {None, Panic}

\* the length of m.vals is the product of the usize values nrows and ncols
\* (a negative representative stands for 2^64 less its magnitude, so its
\* product with anything but 0 is no length m.vals has here)
ShapeHolds(m) ==
    IF m.nrows = 0 \/ m.ncols = 0 THEN Len(m.vals) = 0
    ELSE m.nrows > 0 /\ m.ncols > 0 /\ Len(m.vals) = m.nrows * m.ncols

\* C22 (as the specification states it): every matrix reached through the
\* public API has vals.length == nrows * ncols, and from_array returns
\* absent exactly when the length of the slice is not nrows * ncols.
C22_ShapeInvariant ==
    /\ ShapeHolds(matA)
    /\ last.op = "from_array" =>
          (last.ret = None <=> last.args[3] # last.args[1] * last.args[2])

\* C23: after new on a vector and any add_point calls, len() is the number
\* of intersections given and index i is the i-th given, in the order given
\* whatever their t; a hit() in between leaves len() and the indexed
\* contents as they were (calls is the history of the intersections given).
C23_InsertionOrder ==
    /\ Intersections_len(xs.val) = Len(calls)
    /\ \A i \in 0..(Len(calls) - 1) :
          Intersections_index(xs.val, i) = Some(calls[i + 1])
    /\ Intersections_index(xs.val, Len(calls)) = Panic

\* three intersections given with a t larger than the next one's, the last
\* by add_point, and hit() called since
C23_Witness ==
    /\ Len(calls) = 3
    /\ Intersections_len(xs.val) > MaxNew
    /\ FLt(calls[3].point, calls[2].point)
    /\ FLt(calls[2].point, calls[1].point)
    /\ hit # NotCalled

\* the pieces of text between the separators sep, the last piece being what
\* follows the last separator
Cuts(text, sep) == {k \in 1..Len(text) : text[k] = sep} \cup {0, Len(text) + 1}

NthOf(S, i) == CHOOSE p \in S : Cardinality({q \in S : q <= p}) = i

Split(text, sep) ==
    [i \in 1..(Cardinality(Cuts(text, sep)) - 1) |->
        SubSeq(text, NthOf(Cuts(text, sep), i) + 1, NthOf(Cuts(text, sep), i + 1) - 1)]

\* the lines of a body that ends with a newline
BodyLines(body) == SubSeq(Split(body, "\n"), 1, Len(Split(body, "\n")) - 1)

RECURSIVE Concat(_)
Concat(ss) == IF ss = <<>> THEN <<>> ELSE Head(ss) \o Concat(Tail(ss))

\* the channel values of all the pixels in order, as text
AllChannels(cv) ==
    Concat([k \in 1..Len(cv.pixels) |->
               <<U8Str(Color_scale_color(cv.pixels[k])[1]),
                 U8Str(Color_scale_color(cv.pixels[k])[2]),
                 U8Str(Color_scale_color(cv.pixels[k])[3])>>])

\* the number of channel values on the first k lines
RECURSIVE ValuesBefore(_, _)
ValuesBefore(lines, k) ==
    IF k = 0 THEN 0 ELSE ValuesBefore(lines, k - 1) + Len(Split(lines[k], " "))

PpmWellFormed(cv, body) ==
    /\ body # <<>> /\ body[Len(body)] = "\n"
    /\ \A k \in 1..Len(BodyLines(body)) :
          /\ Len(BodyLines(body)[k]) <= 70
          /\ Len(Split(BodyLines(body)[k], " ")) % 3 = 0
    /\ Concat([k \in 1..Len(BodyLines(body)) |-> Split(BodyLines(body)[k], " ")])
          = AllChannels(cv)
    /\ \A r \in 0..(cv.height - 1) :
          \E k \in 0..(Len(BodyLines(body)) - 1) :
             ValuesBefore(BodyLines(body), k) = 3 * cv.width * r

\* C24 (as the specification states it): gen_ppm_body() returns a body in
\* which no line is longer than 70 characters, every line holds whole
\* pixels (the channel values, three by three, are the pixels' in order),
\* each canvas row starts on a new line, and the last character is a newline.
C24_PpmBody ==
    last.op = "gen_ppm_body" =>
        /\ last.ret # Panic
        /\ PpmWellFormed(canvas, last.ret.val)

\* C25 (as the specification states it): transpose() of any matrix,
\* rectangular ones included, has the shape (ncols, nrows) and its entry
\* (j, i) is entry (i, j) of the matrix.
C25_TransposeAnyShape ==
    last.op = "transpose" =>
        /\ last.ret.nrows = matA.ncols
        /\ last.ret.ncols = matA.nrows
        /\ \A i \in 0..(matA.nrows - 1), j \in 0..(matA.ncols - 1) :
              Matrix_get(last.ret, j, i) = Matrix_get(matA, i, j)

\* C27 (as the specification states it): det() of a 1 x 1 matrix [a] is a,
\* so is_invertible() is true of every 1 x 1 matrix with a # 0, and
\* minor(r, c) of a 2 x 2 matrix is the one element left when row r and
\* column c are removed.
C27_OneByOneDet ==
    /\ (matA.nrows = 1 /\ matA.ncols = 1) =>
          /\ last.op = "det" => last.ret = matA.vals[1]
          /\ last.op = "is_invertible" => (last.ret = (matA.vals[1] # Zero))
    /\ (matA.nrows = 2 /\ matA.ncols = 2 /\ last.op = "minor") =>
          last.ret = Matrix_index(matA, 1 - last.row, 1 - last.col)

\* C26 (as the specification states it): inverse() of a square matrix A of
\* size n >= 2 is absent exactly when det() is 0, exactly when
\* is_invertible() is false; otherwise it is the matrix B with
\* B[c, r] = cofactor(r, c) / det, and A * B == identity(n) == B * A.
C26_InverseOfSquare ==
    (IsSquare(matA) /\ matA.nrows >= 2 /\ last.op = "inverse_products") =>
        /\ (last.ret = None) = FEq(Matrix_det(matA), Zero)
        /\ (last.ret = None) = (Matrix_is_invertible(matA) = FALSE)
        /\ last.ret # None =>
              /\ last.ret.kind = "Some"
              /\ \A r \in 0..(matA.nrows - 1), c \in 0..(matA.nrows - 1) :
                    Matrix_index(last.ret.val, c, r)
                       = FDiv(Matrix_cofactor(matA, r, c), Matrix_det(matA))
              /\ last.ab.kind = "Some" /\ last.ba.kind = "Some"
              /\ Matrix_eq(last.ab.val, Matrix_identity(matA.nrows))
              /\ Matrix_eq(last.ba.val, Matrix_identity(matA.nrows))

\* the recorded intersections with t > 0
Positive(x) == {i \in 1..Len(x.merged_intersections) : FLt(Zero, Points(x)[i])}

\* C28 (as the specification states it): after any insertions, the t that
\* hit() returns exceeds the smallest positive t recorded by at most 1e-4.
C28_HitWithinTolerance ==
    (xs.kind = "Some" /\ hit # NotCalled /\ Positive(xs.val) # {}) =>
        /\ hit.kind = "Some"
        /\ \A i \in Positive(xs.val) :
              FLe(FSub(hit.val.point, Points(xs.val)[i]), Tolerance)

\* C29 (as the specification states it): m[(r, c)] agrees with get(r, c):
\* it is the value of the cell whenever get returns one, and it aborts
\* whenever r >= nrows or c >= ncols.
C29_IndexAgreesWithGet ==
    last.op = "index" =>
        /\ Matrix_get(matA, last.row, last.col).kind = "Some"
              => last.ret = Matrix_get(matA, last.row, last.col).val
        /\ (last.row >= matA.nrows \/ last.col >= matA.ncols) => last.ret = Boom

\* C30 (as the specification states it): for every size n >= 1, no call of
\* rotate_x, rotate_y, rotate_z, scale, translate or shear on a builder made
\* by new(n) aborts, and build() returns an n x n matrix.
C30_BuilderAnySize ==
    /\ builder # Panic
    /\ last.op = "build" => (last.ret.nrows = last.size /\ last.ret.ncols = last.size)


Init == InitHit
Next == NextHit
Spec == SpecHit
=============================================================================
